---- MODULE Spec2Model ----
(***************************************************************************)
(* State-machine model of the DagDev local BlockDAG node: the DAG graph    *)
(* (DAGGraph, Block), the GHOSTDAG colouring pass (BlueSetAlgorithm), the  *)
(* transaction pool (TransactionPool) and the round-driven miner (Miner).  *)
(*                                                                         *)
(* Hashes.  Block.computeHash is SHA-256 over the JSON of parentHashes,    *)
(* timestamp, nonce, transactionsRoot and miner.  SHA-256 is modelled as   *)
(* collision free: the hash IS the tuple of the five hashed fields, so two *)
(* hashes are equal exactly when the hashed fields are equal.              *)
(***************************************************************************)
EXTENDS Integers, Sequences, FiniteSets, TLC

(***************************************************************************)
(* Bounds of the model.                                                    *)
(***************************************************************************)
\* blocks a caller adds to the graph on top of the genesis (SpecDag)
MaxBlocks == 3
\* longest parent list a caller passes to addBlock (SpecDag)
MaxParentList == 2
\* largest GHOSTDAG k explored
MaxK == 1
\* largest balance an account is given (SpecEvm)
MaxBalance == 1
\* checkpoints outstanding at a time (SpecEvm)
MaxCheckpoints == 2
\* largest cumulativeGasUsed before resetCumulativeGas is called (SpecEvm)
MaxGas == 2
\* largest maxSize a pool is constructed with (SpecPool)
MaxPoolSize == 3
\* mining rounds started in one behaviour (SpecMiner)
MaxRounds == 2
\* blocks the rounds of one behaviour build (SpecMiner)
MaxMined == 4
\* largest Date.now() reached, in milliseconds after construction (SpecMiner)
MaxClock == 1
\* largest parallelism and maxParents a miner is configured with (SpecMiner)
MaxParallelism == 2
MaxParentsCfg == 2
MaxCalls == 3
MaxMineBlocksCalls == 2
MaxCount == 2
MaxNodeCalls == 4
MaxBuildPool == 12
MaxWsEvents == 136
MaxWsStarts == 2
MaxRestartEvents == 2
MaxWsClients == 2
MaxTargetDepth == 4
MaxHelperMined == 3
MaxChainBlocks == 4

\* ------------------------------------------------------------------------
\* Generic helpers
\* ------------------------------------------------------------------------
Range(s) == {s[i] : i \in 1..Len(s)}

SeqContains(s, x) == \E i \in 1..Len(s) : s[i] = x

\* Array.from(set) after set.delete(x): order of the remaining elements kept
SeqRemove(s, x) == SelectSeq(s, LAMBDA y : y # x)

\* all sequences over S of length 0..n
RECURSIVE SeqsUpTo(_, _)
SeqsUpTo(S, n) ==
    IF n = 0 THEN {<<>>}
    ELSE LET shorter == SeqsUpTo(S, n - 1)
         IN  shorter \cup {Append(s, x) : s \in {t \in shorter : Len(t) = n - 1}, x \in S}

\* ------------------------------------------------------------------------
\* Block
\* ------------------------------------------------------------------------
GenesisMiner == "0xGenesisMiner"
CallerMiner == "0xCaller"

\* Block.computeHash: the hashed fields; stateRoot and the transaction list
\* are not among them.
computeHash(parentHashes, timestamp, nonce, transactionsRoot, miner) ==
    <<parentHashes, timestamp, nonce, transactionsRoot, miner>>

\* Block constructor: new Block(parentHashes, transactions, miner) at time now
NewBlock(parentHashes, transactions, miner, now) ==
    [ hash         |-> computeHash(parentHashes, now, 0, "0x0", miner),
      parentHashes |-> parentHashes,
      timestamp    |-> now,
      miner        |-> miner,
      transactions |-> transactions,
      color        |-> "pending",
      dagDepth     |-> 0,
      blueScore    |-> 0 ]

\* Block.isGenesis
isGenesis(b) == Len(b.parentHashes) = 0

\* ------------------------------------------------------------------------
\* DAGGraph: a graph is a record
\*   blocks      Map<hash, Block> as the sequence of its values in insertion
\*               order (the keys are the blocks' hash fields)
\*   children    Map<hash, Set<hash>>
\*   tips        Set<hash> in insertion order
\*   genesisHash, k
\* ------------------------------------------------------------------------
hasBlock(d, h) == \E i \in 1..Len(d.blocks) : d.blocks[i].hash = h

getBlock(d, h) == d.blocks[CHOOSE i \in 1..Len(d.blocks) : d.blocks[i].hash = h]

BlockHashes(d) == {d.blocks[i].hash : i \in 1..Len(d.blocks)}

getChildren(d, h) == IF h \in DOMAIN d.children THEN d.children[h] ELSE {}

getTips(d) == d.tips

getGenesisHash(d) == d.genesisHash

getBlockCount(d) == Len(d.blocks)

isBlue(d, h) == hasBlock(d, h) /\ getBlock(d, h).color = "blue"

\* the default of the constructor's k
DefaultK == 18

\* DAGGraph constructor + initializeGenesis (genesis created at time now)
NewDAG(kk, now) ==
    LET g0 == NewBlock(<<>>, <<>>, GenesisMiner, now)
        g  == [g0 EXCEPT !.color = "blue", !.dagDepth = 0, !.blueScore = 0]
    IN  [ blocks      |-> <<g>>,
          children    |-> (g.hash :> {}),
          tips        |-> <<g.hash>>,
          genesisHash |-> g.hash,
          k           |-> kk ]

\* ------------------------------------------------------------------------
\* BlueSetAlgorithm
\* ------------------------------------------------------------------------
\* getPast: breadth-first walk over parent links, starting from the parents
RECURSIVE PastWalk(_, _, _)
PastWalk(d, queue, past) ==
    IF Len(queue) = 0 THEN past
    ELSE LET h == Head(queue)
         IN  IF h \in past THEN PastWalk(d, Tail(queue), past)
             ELSE PastWalk(d,
                           IF hasBlock(d, h)
                             THEN Tail(queue) \o getBlock(d, h).parentHashes
                             ELSE Tail(queue),
                           past \cup {h})

getPast(d, b) == PastWalk(d, b.parentHashes, {})

\* getFuture: breadth-first walk over child links
RECURSIVE FutureWalk(_, _, _)
FutureWalk(d, frontier, future) ==
    IF frontier = {} THEN future
    ELSE LET new == (UNION {getChildren(d, h) : h \in frontier}) \ future
         IN  FutureWalk(d, new, future \cup new)

getFuture(d, b) == FutureWalk(d, {b.hash}, {})

calculateAnticoneSize(d, b, blueSet) ==
    LET past   == getPast(d, b)
        future == getFuture(d, b)
    IN  Cardinality({x \in blueSet : x \notin past /\ x \notin future})

\* blocks.filter(b => !b.isGenesis()).sort((a, b) => a.dagDepth - b.dagDepth):
\* Array.prototype.sort is stable, so blocks of equal depth keep the Map's
\* insertion order.
RECURSIVE SortLevels(_, _, _)
SortLevels(s, depth, maxDepth) ==
    IF depth > maxDepth THEN <<>>
    ELSE SelectSeq(s, LAMBDA b : b.dagDepth = depth) \o SortLevels(s, depth + 1, maxDepth)

getMaxDepth(d) ==
    LET ds == {d.blocks[i].dagDepth : i \in 1..Len(d.blocks)} \cup {0}
    IN  CHOOSE m \in ds : \A x \in ds : x <= m

sortedBlocks(d) ==
    SortLevels(SelectSeq(d.blocks, LAMBDA b : ~isGenesis(b)), 0, getMaxDepth(d))

\* computeBlueSet's loop with the comparison `anticoneSize < this.k`
RECURSIVE BlueLoopStrict(_, _, _)
BlueLoopStrict(d, todo, blueSet) ==
    IF Len(todo) = 0 THEN blueSet
    ELSE LET b == Head(todo)
         IN  BlueLoopStrict(d, Tail(todo),
                            IF calculateAnticoneSize(d, b, blueSet) < d.k
                              THEN blueSet \cup {b.hash}
                              ELSE blueSet)

\* the loop of computeBlueSet over the sorted blocks
RECURSIVE BlueLoop(_, _, _)
BlueLoop(d, todo, blueSet) ==
    IF Len(todo) = 0 THEN blueSet
    ELSE LET b == Head(todo)
         IN  BlueLoop(d, Tail(todo),
                      IF calculateAnticoneSize(d, b, blueSet) <= d.k
                        THEN blueSet \cup {b.hash}
                        ELSE blueSet)

computeBlueSet(d) == BlueLoop(d, sortedBlocks(d), {getGenesisHash(d)})

\* calculateBlueScore: blue blocks in the past of b
calculateBlueScore(d, b, blueSet) == Cardinality(getPast(d, b) \cap blueSet)

\* ------------------------------------------------------------------------
\* DAGGraph mutators
\* ------------------------------------------------------------------------
\* updateBlockDepth taking the depth of the first parent only
updateBlockDepthFirstParent(d, b) ==
    IF Len(b.parentHashes) = 0 THEN 1
    ELSE getBlock(d, b.parentHashes[1]).dagDepth + 1

\* updateBlockDepth: 1 + the largest parent depth, the running maximum
\* starting at 0
updateBlockDepth(d, b) ==
    LET ds == {getBlock(d, b.parentHashes[i]).dagDepth : i \in 1..Len(b.parentHashes)}
                \cup {0}
    IN  (CHOOSE m \in ds : \A x \in ds : x <= m) + 1

\* recomputeBlueSet: every block red, then the blue set blue
recomputeBlueSet(d) ==
    LET blueSet == computeBlueSet(d)
    IN  [d EXCEPT !.blocks =
            [i \in 1..Len(d.blocks) |->
                [d.blocks[i] EXCEPT !.color =
                    IF d.blocks[i].hash \in blueSet THEN "blue" ELSE "red"]]]

\* the children map after the parents of b have been given b as a child
RECURSIVE LinkParents(_, _, _)
LinkParents(ch, parents, h) ==
    IF Len(parents) = 0 THEN ch
    ELSE LinkParents(
            IF Head(parents) \in DOMAIN ch
              THEN [ch EXCEPT ![Head(parents)] = @ \cup {h}]
              ELSE ch,
            Tail(parents), h)

\* addBlock's loop without `this.tips.delete(parentHash)`
UnTipNone(tips, parents) == tips

\* the tips after the parents of b have been deleted
RECURSIVE UnTip(_, _)
UnTip(tips, parents) ==
    IF Len(parents) = 0 THEN tips
    ELSE UnTip(SeqRemove(tips, Head(parents)), Tail(parents))

\* addBlock without the validation loop over the parents
addBlockUnvalidated(d, b) ==
    IF hasBlock(d, b.hash) THEN [dag |-> d, res |-> "already-present"]
    ELSE [dag |-> [d EXCEPT !.blocks = Append(d.blocks, b),
                            !.children = LinkParents(d.children @@ (b.hash :> {}),
                                                     b.parentHashes, b.hash),
                            !.tips = Append(d.tips, b.hash)],
          res |-> "added"]

\* addBlock: returns the graph afterwards and the outcome
\*   "already-present"  return false
\*   "missing-parent"   throw new Error(`Parent block ... not found`)
\*   "added"            return true
addBlock(d, b) ==
    IF hasBlock(d, b.hash) THEN [dag |-> d, res |-> "already-present"]
    ELSE IF \E i \in 1..Len(b.parentHashes) : ~hasBlock(d, b.parentHashes[i])
      THEN [dag |-> d, res |-> "missing-parent"]
    ELSE
      LET d1 == [d EXCEPT !.children = LinkParents(d.children @@ (b.hash :> {}),
                                                   b.parentHashes, b.hash),
                          !.tips = Append(UnTip(d.tips, b.parentHashes), b.hash)]
          b1 == [b EXCEPT !.dagDepth = updateBlockDepth(d, b)]
          d2 == [d1 EXCEPT !.blocks = Append(d.blocks, b1)]
          \* the graph with the block stored is bound as a value, built once
      IN  CHOOSE out \in {[dag |-> recomputeBlueSet(x), res |-> "added"] : x \in {d2}} : TRUE

\* getAncestors: breadth-first walk from the block itself; the parents of every
\* visited block are ancestors
RECURSIVE AncestorsWalk(_, _, _, _)
AncestorsWalk(d, queue, visited, ancestors) ==
    IF Len(queue) = 0 THEN ancestors
    ELSE LET current == Head(queue)
         IN  IF current \in visited \/ ~hasBlock(d, current)
               THEN AncestorsWalk(d, Tail(queue), visited \cup {current}, ancestors)
               ELSE LET ps == getBlock(d, current).parentHashes
                    IN  AncestorsWalk(d, Tail(queue) \o ps, visited \cup {current},
                                      ancestors \cup Range(ps))

\* getAncestors without `queue.push(parentHash)`: the direct parents only
getAncestorsParentsOnly(d, h) ==
    IF hasBlock(d, h) THEN Range(getBlock(d, h).parentHashes) ELSE {}

getAncestors(d, h) == AncestorsWalk(d, <<h>>, {}, {})

\* getDescendants: breadth-first walk from the block itself; the children of
\* every visited block are descendants
RECURSIVE DescendantsWalk(_, _, _, _)
DescendantsWalk(d, queue, visited, descendants) ==
    IF queue = {} THEN descendants
    ELSE LET current == CHOOSE x \in queue : TRUE
         IN  IF current \in visited
               THEN DescendantsWalk(d, queue \ {current}, visited, descendants)
               ELSE DescendantsWalk(d, (queue \ {current}) \cup getChildren(d, current),
                                    visited \cup {current},
                                    descendants \cup getChildren(d, current))

getDescendants(d, h) == DescendantsWalk(d, {h}, {}, {})

\* getAnticone: the stored hashes that are not the block, not an ancestor and
\* not a descendant
getAnticone(d, h) ==
    LET ancestors   == getAncestors(d, h)
        descendants == getDescendants(d, h)
    IN  {x \in BlockHashes(d) : x # h /\ x \notin ancestors /\ x \notin descendants}

\* ------------------------------------------------------------------------
\* TransactionPool: the pool Map as the sequence of its entries in insertion
\* order; an entry is [tx, addedAt, attempts], a transaction [hash, gasPrice]
\* ------------------------------------------------------------------------
DefaultPoolSize == 1000
\* Number.MAX_SAFE_INTEGER, 2^53 - 1, is beyond the model checker's integers:
\* gas prices are scaled so that it is 1000000
MAX_SAFE_INTEGER == 1000000

poolHas(pool, txHash) == \E i \in 1..Len(pool) : pool[i].tx.hash = txHash

\* evictLowestGasPriceTx deleting the entry that was admitted first
evictOldestTx(pool) ==
    IF Len(pool) = 0 THEN pool ELSE Tail(pool)

\* evictLowestGasPriceTx: the first entry whose gasPrice is below every
\* earlier candidate, starting from Number.MAX_SAFE_INTEGER
evictLowestGasPriceTx(pool) ==
    LET cand == {i \in 1..Len(pool) : pool[i].tx.gasPrice < MAX_SAFE_INTEGER}
    IN  IF cand = {} THEN pool
        ELSE LET low == CHOOSE i \in cand :
                            /\ \A j \in cand : pool[i].tx.gasPrice <= pool[j].tx.gasPrice
                            /\ \A j \in cand : j < i => pool[j].tx.gasPrice > pool[i].tx.gasPrice
             IN  [j \in 1..(Len(pool) - 1) |-> IF j < low THEN pool[j] ELSE pool[j + 1]]

\* addTransaction: the pool afterwards and the verdict
addTransaction(pool, maxSize, tx, now) ==
    LET p1 == IF Len(pool) >= maxSize THEN evictLowestGasPriceTx(pool) ELSE pool
    IN  IF poolHas(p1, tx.hash)
          THEN [pool |-> p1, ok |-> FALSE]
          ELSE [pool |-> Append(p1, [tx |-> tx, addedAt |-> now, attempts |-> 0]),
                ok   |-> TRUE]

\* Array.prototype.sort with (a, b) => Number(b.gasPrice - a.gasPrice): stable,
\* so an entry goes behind every entry whose gasPrice is not lower
RECURSIVE SortByGasPrice(_)
SortByGasPrice(entries) ==
    IF Len(entries) = 0 THEN <<>>
    ELSE LET n      == Len(entries)
             sorted == SortByGasPrice(SubSeq(entries, 1, n - 1))
             x      == entries[n]
             keep   == Cardinality({i \in 1..Len(sorted) :
                                       sorted[i].tx.gasPrice >= x.tx.gasPrice})
         IN  SubSeq(sorted, 1, keep) \o <<x>> \o SubSeq(sorted, keep + 1, Len(sorted))

\* the optional argument `limit?: number`: <<>> when the caller passes none,
\* <<n>> when the caller passes n
NoLimit == <<>>

\* getTransactionsByGasPrice(limit): `limit ? txs.slice(0, limit) : txs`, so a
\* limit of 0 is falsy and gives the whole list
getTransactionsByGasPrice(pool, limit) ==
    LET sorted == SortByGasPrice(pool)
        txs    == [i \in 1..Len(sorted) |-> sorted[i].tx]
    IN  IF limit # NoLimit /\ limit[1] # 0
          THEN SubSeq(txs, 1, IF limit[1] < Len(txs) THEN limit[1] ELSE Len(txs))
          ELSE txs

getPending(pool, limit) == getTransactionsByGasPrice(pool, limit)

\* ------------------------------------------------------------------------
\* Miner
\* ------------------------------------------------------------------------
DefaultMinerAddress == "0xMinerAddress"
PendingLimit == 10

\* WebSocketServer: this.maxQueueSize and the messageQueue.slice(-20) of handleConnection
maxQueueSize == 100
HistoryLength == 20

Min(a, b) == IF a < b THEN a ELSE b

\* [...new Set(parents)]: first occurrences, in order
RECURSIVE Dedup(_)
Dedup(s) ==
    IF Len(s) = 0 THEN <<>>
    ELSE LET front == Dedup(SubSeq(s, 1, Len(s) - 1))
         IN  IF SeqContains(front, s[Len(s)]) THEN front ELSE Append(front, s[Len(s)])

\* selectParentsFromTips without the maxParents cap: every tip is a parent
selectParentsAllTips(tips, blockIndex, maxParents) == tips

\* selectParentsFromTips(tips, blockIndex); tips is never empty (the throw of
\* the first branch needs an empty tip set)
selectParentsFromTips(tips, blockIndex, maxParents) ==
    IF Len(tips) = 1 THEN <<tips[1]>>
    ELSE LET numParents == Min(maxParents, Len(tips))
             parents ==
               IF blockIndex = 0
                 THEN [i \in 1..numParents |-> tips[i]]
               ELSE IF blockIndex = 1 /\ Len(tips) >= 2
                 THEN [i \in 1..numParents |-> tips[((1 + (i - 1)) % Len(tips)) + 1]]
               ELSE [i \in 1..numParents |->
                        tips[(((blockIndex % Len(tips)) + (i - 1)) % Len(tips)) + 1]]
         IN  Dedup(parents)

\* getTransactionsFromPool asking the pool for every pending transaction
getTransactionsFromPoolUnlimited(pool) == getPending(pool, NoLimit)

\* getTransactionsFromPool; the node always sets a pool (LocalNode constructor)
getTransactionsFromPool(pool) == getPending(pool, <<PendingLimit>>)

\* generateTempBlockHash
generateTempBlockHash(parentHashes, now) == <<"0xtemp", now, Len(parentHashes)>>

\* ------------------------------------------------------------------------
\* EVMExecutor: an executor is a record
\*   accounts           the accounts of the MerkleStateManager: address ->
\*                      [balance, code], an address without account absent
\*   checkpoints        the account maps saved by checkpoint(), latest first
\*   cumulativeGasUsed
\* The EVM and the state manager are the @ethereumjs libraries; what the
\* executor's code relies on is modelled here: getAccount gives undefined for
\* an address without account, runCall keeps the effects of a message that
\* ends without exception and drops those of one that ends with one, and
\* execResult.executionGasUsed is the gas the execution used.
\* ------------------------------------------------------------------------
\* tx.to of a contract creation
NoAddress == "null"
\* a string createAddressFromString throws on
InvalidAddress == "0xZZ"
\* the address runCall creates a contract at
ContractAddress == "0xC0"
\* gasLimit of the runCall of call and estimateGas
CallGasLimit == 10000000
\* estimateGas adds the base cost to the execution gas, and answers this when
\* the execution throws
BaseGas == 21000
FallbackGasEstimate == 100000

NewEVM == [accounts |-> <<>>, checkpoints |-> <<>>, cumulativeGasUsed |-> 0]

hasAccount(accounts, a) == a \in DOMAIN accounts

\* getBalance: `account ? account.balance : 0n`
getBalance(e, a) == IF hasAccount(e.accounts, a) THEN e.accounts[a].balance ELSE 0

\* setBalance: `if (account) { account.balance = balance; putAccount }`
setBalance(e, a, balance) ==
    IF hasAccount(e.accounts, a)
      THEN [e EXCEPT !.accounts[a].balance = balance]
      ELSE e

resetCumulativeGas(e) == [e EXCEPT !.cumulativeGasUsed = 0]

\* checkpoint / revert / commit of the state manager, for a revert and a
\* commit that have an outstanding checkpoint to undo or merge
checkpoint(e) == [e EXCEPT !.checkpoints = <<e.accounts>> \o @]

revert(e) == [e EXCEPT !.accounts = Head(e.checkpoints), !.checkpoints = Tail(@)]

commit(e) == [e EXCEPT !.checkpoints = Tail(@)]

\* the amounts of gas an execution with this limit is taken to use
UsedChoices(gasLimit) == {g \in {0, 1, gasLimit} : g <= gasLimit}

\* the accounts after the message [caller, to, value] has taken effect
Transferred(accounts, msg) ==
    LET target  == IF msg.to = NoAddress THEN ContractAddress ELSE msg.to
        create  == msg.to = NoAddress
        debited == IF msg.value > 0
                     THEN [accounts EXCEPT ![msg.caller].balance = @ - msg.value]
                     ELSE accounts
    IN  IF hasAccount(debited, target)
          THEN [debited EXCEPT ![target].balance = @ + msg.value,
                               ![target].code = @ \/ create]
        ELSE IF msg.value > 0 \/ create
          THEN (target :> [balance |-> msg.value, code |-> create]) @@ debited
        ELSE debited

\* evm.runCall(msg): the results the library can give.  A message whose
\* caller cannot pay its value ends with an exception; one that runs no code
\* (a call to an address without code) uses no gas and succeeds; one that
\* runs code may use any amount of gas and end either way.
runCall(accounts, msg) ==
    LET balance  == IF hasAccount(accounts, msg.caller)
                      THEN accounts[msg.caller].balance ELSE 0
        runsCode == \/ msg.to = NoAddress
                    \/ hasAccount(accounts, msg.to) /\ accounts[msg.to].code
    IN  IF balance < msg.value
          THEN {[exceptionError |-> TRUE, executionGasUsed |-> 0, accounts |-> accounts]}
        ELSE IF ~runsCode
          THEN {[exceptionError |-> FALSE, executionGasUsed |-> 0,
                 accounts |-> Transferred(accounts, msg)]}
        ELSE {[exceptionError |-> FALSE, executionGasUsed |-> g,
               accounts |-> Transferred(accounts, msg)] : g \in UsedChoices(msg.gasLimit)}
               \cup
             {[exceptionError |-> TRUE, executionGasUsed |-> g, accounts |-> accounts] :
                  g \in UsedChoices(msg.gasLimit)}

\* createAddressFromString throws on tx.from or tx.to
Throws(tx) == tx.from = InvalidAddress \/ tx.to = InvalidAddress

\* what the try block of executeTransaction / deployContract can meet: a
\* throw, or a result of runCall
Executions(e, tx) ==
    IF Throws(tx) THEN {[thrown |-> TRUE]}
    ELSE {[thrown |-> FALSE, result |-> r] :
             r \in runCall(e.accounts, [caller |-> tx.from, to |-> tx.to,
                                        value |-> tx.value, gasLimit |-> tx.gasLimit])}

\* executeTransaction(tx, blockHash) meeting x: the executor afterwards and
\* the receipt
executeTransaction(e, tx, blockHash, x) ==
    LET gasUsed == IF x.thrown THEN tx.gasLimit
                   ELSE tx.gasLimit - x.result.executionGasUsed
        cumulative == e.cumulativeGasUsed + gasUsed
    IN  [evm |-> [e EXCEPT !.cumulativeGasUsed = cumulative,
                          !.accounts = IF x.thrown THEN @ ELSE x.result.accounts],
         receipt |-> [transactionHash   |-> tx.hash,
                      blockHash         |-> blockHash,
                      gasUsed           |-> gasUsed,
                      cumulativeGasUsed |-> cumulative,
                      status |-> IF x.thrown \/ x.result.exceptionError
                                   THEN "failed" ELSE "success"]]

\* call(to, data, from, value) and estimateGas(tx): the runCall they make
\* with the fixed gas limit, nothing being done before or after it
SimulatedCalls(e, from, to, value) ==
    runCall(e.accounts, [caller |-> from, to |-> to, value |-> value,
                         gasLimit |-> CallGasLimit])

\* estimateGas: the estimate returned
estimateGas(tx, x) ==
    IF x.thrown THEN FallbackGasEstimate ELSE x.result.executionGasUsed + BaseGas

\* ------------------------------------------------------------------------
\* State
\* ------------------------------------------------------------------------
VARIABLES
    dag,     \* the node's DAGGraph
    res,     \* outcome of the latest addBlock call made directly on the graph
    call,    \* what held of that call's block when the call was made
    clock,   \* Date.now()
    config,  \* Miner.config: parallelism, maxParents, minerAddress
    mining,  \* Miner.mining
    miningInterval,   \* Miner.miningInterval is set
    timers,  \* the interval timers of startMining that are active
    txPool,  \* TransactionPool.pool
    rounds,  \* the mineRound invocations, in the order they began
    blocksMinedCount, \* Miner.blocksMinedCount
    receipts,         \* Miner.receipts: txHash -> receipt
    emitted,          \* the 'blockMined' events in emission order: round and block hash
    maxSize, \* TransactionPool.maxSize
    poolOp,  \* the latest call made directly on the pool, with what it returned
    evm,     \* the EVMExecutor
    evmOp,   \* the latest call made directly on the executor, with what it met
    minerOp, \* the latest call of startMining, stopMining or updateConfig, with
             \* what it found and emitted
    mineBlocksCalls, \* the LocalNode.mineBlocks calls made, in call order
    node,    \* the LocalNode's own state, its two servers and the calls of its methods
    rpcOp,   \* the latest JSON-RPC request with the response sent for it
    hashOp,  \* the two latest blocks mineBlock returned: header and hash
    ws,      \* the WebSocketServer, its clients with what each was sent, and the
             \* messages broadcast so far
    helper   \* the MiningHelpers.mineToDepth call: its target and the place it has reached

vars == <<dag, res, call, clock, config, mining, miningInterval, timers, txPool, rounds,
          blocksMinedCount, receipts, emitted, maxSize, poolOp, evm, evmOp, minerOp,
          mineBlocksCalls, node, rpcOp, hashOp, ws, helper>>

dagVars == <<dag, res, call>>

minerVars == <<clock, config, mining, miningInterval, timers, txPool, rounds,
               blocksMinedCount, receipts, emitted>>

poolVars == <<maxSize, poolOp>>

evmVars == <<evm, evmOp>>

nodeVars == <<minerOp, mineBlocksCalls, node, rpcOp, hashOp, ws, helper>>

\* WebSocketServer after its constructor: not running, no listener on the
\* node, no client, an empty messageQueue
NewWs ==
    [isRunning  |-> FALSE,
     starting   |-> FALSE,
     listeners  |-> 0,
     clients    |-> <<>>,
     queue      |-> <<>>,
     broadcasts |-> <<>>,
     emitted    |-> 0]

\* mineToDepth has not been called
NoHelperCall == [pc |-> "idle", target |-> 0, i |-> 0, mined |-> 0]

\* no request has been posted
NoRpcOp == [request |-> "none", response |-> "none"]

\* LocalNode after its constructor: isRunning false, both servers built and
\* not listening, no call made, no event emitted
NewNode ==
    [isRunning  |-> FALSE,
     rpcRunning |-> FALSE, rpcBound |-> FALSE, rpcListens |-> 0,
     wsRunning  |-> FALSE, wsBound  |-> FALSE, wsCreated  |-> 0,
     calls      |-> <<>>,
     events     |-> <<>>]

NoMinerOp == [op |-> "none", wasMining |-> FALSE, events |-> <<>>, calls |-> 0]

NoEvmOp == [op |-> "none"]

NoCall == "none"

NoPoolOp == [op |-> "none"]

\* ------------------------------------------------------------------------
\* SpecDag: callers of the public DAGGraph API add blocks to a fresh graph.
\* header.hash and header.parentHashes are public fields and addBlock never
\* recomputes the hash, so the graph sees an arbitrary key with an arbitrary
\* parent list.  Key(i) stands for the i-th hash string callers come up with.
\* ------------------------------------------------------------------------
Key(i) == computeHash(<<>>, i, 0, "0x0", CallerMiner)

GenesisKey == computeHash(<<>>, 0, 0, "0x0", GenesisMiner)

KeyUniverse == {GenesisKey} \cup {Key(i) : i \in 1..MaxBlocks}

\* the position of a key in the order callers come up with them
KeyIndex(h) == h[2]

\* the parent lists callers pass: addBlock only iterates a parent list (the
\* existence check, children.add, tips.delete, the maximum of the depths), so
\* lists are enumerated up to reordering, repeated entries included
CallerParentLists ==
    {ps \in SeqsUpTo(KeyUniverse, MaxParentList) :
        \A i \in 1..(Len(ps) - 1) : KeyIndex(ps[i]) <= KeyIndex(ps[i + 1])}

CallerBlock(h, ps) ==
    [NewBlock(ps, <<>>, CallerMiner, 0) EXCEPT !.hash = h]

InitDag ==
    /\ \E kk \in 0..MaxK : dag = NewDAG(kk, 0)
    /\ res = "none"
    /\ call = NoCall
    /\ clock = 0
    /\ config = [parallelism |-> 1, maxParents |-> 1, minerAddress |-> DefaultMinerAddress]
    /\ mining = FALSE
    /\ miningInterval = FALSE
    /\ txPool = <<>>
    /\ rounds = <<>>
    /\ blocksMinedCount = 0
    /\ receipts = <<>>
    /\ emitted = <<>>
    /\ maxSize = DefaultPoolSize
    /\ poolOp = NoPoolOp
    /\ evm = NewEVM
    /\ evmOp = NoEvmOp
    /\ timers = 0
    /\ minerOp = NoMinerOp
    /\ mineBlocksCalls = <<>>
    /\ node = NewNode
    /\ rpcOp = NoRpcOp
    /\ hashOp = <<>>
    /\ ws = NewWs
    /\ helper = NoHelperCall

\* dag.addBlock(b) called by a user of the graph
AddBlock(h, ps) ==
    /\ Len(dag.blocks) <= MaxBlocks
    /\ LET r == addBlock(dag, CallerBlock(h, ps))
       IN  /\ dag' = r.dag
           /\ res' = r.res
    /\ call' = IF hasBlock(dag, h) THEN "hash-stored"
               ELSE IF SeqContains(ps, h) THEN "own-hash-as-parent"
               ELSE IF \E i \in 1..Len(ps) : ~hasBlock(dag, ps[i]) THEN "parent-missing"
               ELSE "parents-stored"
    /\ UNCHANGED <<nodeVars, minerVars, poolVars, evmVars>>

\* a caller passes a block under the next new key or under a stored one;
\* blocks.has(hash) treats every stored key alike and the stored key passed
\* is that of the latest block
NextDag ==
    \E h \in {dag.blocks[Len(dag.blocks)].hash, Key(Len(dag.blocks))} :
        \E ps \in CallerParentLists :
            AddBlock(h, ps)

SpecDag == InitDag /\ [][NextDag]_vars

\* ------------------------------------------------------------------------
\* SpecMiner: a LocalNode whose miner is started and stopped, whose interval
\* timer fires, whose clock advances and which is sent transactions.
\*
\* mineRound is an async function: it runs synchronously up to the first await
\* inside mineBlock, is resumed once per transaction of the block when the
\* awaited executeTransaction has answered, and once more when the awaited
\* getStateRootHex has.  Rounds share the node's DAG, pool, receipts and the
\* one EVMExecutor.  A round is a record
\*   pc            "executing" while mineBlock awaits executeTransaction,
\*                 "building" while it awaits getStateRootHex, then "done"
\*   tips          currentTips, the snapshot taken by mineRound
\*   i             the loop index of the block being built
\*   parents, transactions, tempHash
\*                 what the loop body and mineBlock computed for block i before
\*                 the first await
\*   next          the index in transactions of the transaction being executed
\*   blockReceipts the result.receipt of the transactions of block i executed
\*                 so far, in order
\*   minedBlocks   the blocks built so far
\*   added         the hashes of the blocks for which addBlock returned true
\* ------------------------------------------------------------------------
TxGasLimit == 1

\* a transfer of nothing between two plain addresses
TxUniverse ==
    { [hash |-> "0xTX1", gasPrice |-> 1, from |-> "0xA", to |-> "0xB", value |-> 0,
       gasLimit |-> TxGasLimit] }

\* the loop body of mineRound for block r.i up to the first await of mineBlock
BeginBlock(r, cfg, pool, now) ==
    LET parents      == selectParentsFromTips(r.tips, r.i, cfg.maxParents)
        transactions == getTransactionsFromPool(pool)
    IN  [r EXCEPT !.pc            = IF Len(transactions) > 0 THEN "executing" ELSE "building",
                  !.parents       = parents,
                  !.transactions  = transactions,
                  !.tempHash      = generateTempBlockHash(parents, now),
                  !.next          = 1,
                  !.blockReceipts = <<>>]

\* mineRound up to the first await
BeginRound(d, cfg, pool, now) ==
    BeginBlock([ pc           |-> "building",
                 tips         |-> getTips(d),
                 i            |-> 0,
                 parents      |-> <<>>,
                 transactions |-> <<>>,
                 tempHash     |-> <<>>,
                 next         |-> 1,
                 blockReceipts |-> <<>>,
                 minedBlocks  |-> <<>>,
                 added        |-> <<>> ],
               cfg, pool, now)

\* receipts.set(tx.hash, result.receipt)
StoreReceipt(rcpts, receipt) == (receipt.transactionHash :> receipt) @@ rcpts

\* getReceipt(txHash)
getReceipt(rcpts, txHash) == IF txHash \in DOMAIN rcpts THEN rcpts[txHash] ELSE "undefined"

\* the second loop of mineRound: addBlock for every mined block, in order
RECURSIVE AppendAll(_, _, _)
AppendAll(d, bs, added) ==
    IF Len(bs) = 0 THEN [dag |-> d, added |-> added]
    ELSE LET r == addBlock(d, Head(bs))
         IN  AppendAll(r.dag, Tail(bs),
                       IF r.res = "added" THEN Append(added, Head(bs).hash) ELSE added)

InitMiner ==
    /\ \E kk \in 0..MaxK : dag = NewDAG(kk, 0)
    /\ res = "none"
    /\ call = NoCall
    /\ clock = 0
    /\ \E par \in 1..MaxParallelism, mp \in 1..MaxParentsCfg :
          config = [parallelism |-> par, maxParents |-> mp,
                    minerAddress |-> DefaultMinerAddress]
    /\ mining = FALSE
    /\ miningInterval = FALSE
    /\ txPool = <<>>
    /\ rounds = <<>>
    /\ blocksMinedCount = 0
    /\ receipts = <<>>
    /\ emitted = <<>>
    /\ maxSize = DefaultPoolSize
    /\ poolOp = NoPoolOp
    /\ evm = NewEVM
    /\ evmOp = NoEvmOp
    /\ timers = 0
    /\ minerOp = NoMinerOp
    /\ mineBlocksCalls = <<>>
    /\ node = NewNode
    /\ rpcOp = NoRpcOp
    /\ hashOp = <<>>
    /\ ws = NewWs
    /\ helper = NoHelperCall

\* Miner.startMining on an idle miner: the immediate round and the interval
StartMining ==
    /\ ~mining
    /\ Len(rounds) < MaxRounds
    /\ (Len(rounds) + 1) * config.parallelism <= MaxMined
    /\ mining' = TRUE
    /\ miningInterval' = TRUE
    /\ timers' = timers + 1
    /\ rounds' = Append(rounds, BeginRound(dag, config, txPool, clock))
    /\ evm' = resetCumulativeGas(evm)
    /\ UNCHANGED <<nodeVars, evmOp, poolVars, dagVars, clock, config, txPool, blocksMinedCount, receipts, emitted>>

\* Miner.stopMining on a mining miner
StopMining ==
    /\ mining
    /\ mining' = FALSE
    /\ miningInterval' = FALSE
    /\ timers' = IF miningInterval THEN timers - 1 ELSE timers
    /\ UNCHANGED <<nodeVars, evmVars, poolVars, dagVars, clock, config, txPool, rounds, blocksMinedCount, receipts,
                   emitted>>

\* the setInterval callback of startMining
TimerFires ==
    /\ miningInterval
    /\ Len(rounds) < MaxRounds
    /\ (Len(rounds) + 1) * config.parallelism <= MaxMined
    /\ rounds' = Append(rounds, BeginRound(dag, config, txPool, clock))
    /\ evm' = resetCumulativeGas(evm)
    /\ UNCHANGED <<nodeVars, evmOp, poolVars, dagVars, clock, config, mining, miningInterval, timers, txPool,
                   blocksMinedCount, receipts, emitted>>

\* a millisecond passes
Tick ==
    /\ clock < MaxClock
    /\ clock' = clock + 1
    /\ UNCHANGED <<nodeVars, evmVars, poolVars, dagVars, config, mining, miningInterval, timers, txPool, rounds,
                   blocksMinedCount, receipts, emitted>>

\* LocalNode.addTransaction
AddTransaction(tx) ==
    /\ txPool' = addTransaction(txPool, maxSize, tx, clock).pool
    /\ txPool' # txPool
    /\ UNCHANGED <<nodeVars, evmVars, poolVars, dagVars, clock, config, mining, miningInterval, timers, rounds,
                   blocksMinedCount, receipts, emitted>>

\* the 'blockMined' listener of a mineBlocks call: once blocksMinedCount has
\* risen by count the call takes its listener off and returns
Reached(c, minedCount) == c.pc = "waiting" /\ minedCount - c.startCount >= c.count

\* the mineBlocks calls after their listeners have run on an event
Notify(calls, minedCount) ==
    [i \in 1..Len(calls) |->
        IF Reached(calls[i], minedCount) THEN [calls[i] EXCEPT !.pc = "returned"]
        ELSE calls[i]]

\* some listener that runs on the event calls stopMining: one of a call that
\* found the miner idle and started it
ListenerStops(calls, minedCount) ==
    \E i \in 1..Len(calls) : Reached(calls[i], minedCount) /\ ~calls[i].wasRunning

\* the emit loop running over the mined blocks from the last to the first
EmitAllReversed(n, bs) ==
    [j \in 1..Len(bs) |-> [round |-> n, hash |-> bs[Len(bs) + 1 - j].hash]]

\* the emit loop of mineRound: one blockMined event per mined block, in order
EmitAll(n, bs) == [j \in 1..Len(bs) |-> [round |-> n, hash |-> bs[j].hash]]

\* mineBlock resumed after `await this.evmExecutor.executeTransaction(tx,
\* blockHash)` for transaction rounds[n].next of the block: the executor has
\* run the transaction and added its gas to its cumulativeGasUsed, the receipt
\* is stored, and the next transaction is handed to the executor, or the state
\* root is asked for
ExecuteDone(n) ==
    /\ n \in 1..Len(rounds)
    /\ rounds[n].pc = "executing"
    /\ LET r  == rounds[n]
           tx == r.transactions[r.next]
       IN  \E x \in Executions(evm, tx) :
              LET result == executeTransaction(evm, tx, r.tempHash, x)
              IN  /\ evm' = result.evm
                  /\ receipts' = StoreReceipt(receipts, result.receipt)
                  /\ rounds' = [rounds EXCEPT ![n] =
                        [r EXCEPT !.next = r.next + 1,
                                  !.blockReceipts = Append(@, result.receipt),
                                  !.pc = IF r.next < Len(r.transactions)
                                           THEN "executing" ELSE "building"]]
    /\ UNCHANGED <<nodeVars, evmOp, poolVars, dagVars, clock, config, mining, miningInterval, timers, txPool,
                   blocksMinedCount, emitted>>

\* mineRound resumed after `await this.mineBlock(...)` for block rounds[n].i:
\* the block is built; then either the next loop iteration runs up to its
\* await, or the round appends its blocks, emits the events, on which the
\* listeners of the mineBlocks calls run, and ends
MineBlockDone(n) ==
    /\ n \in 1..Len(rounds)
    /\ rounds[n].pc = "building"
    /\ LET r     == rounds[n]
           block == NewBlock(r.parents, r.transactions, config.minerAddress, clock)
           mined == Append(r.minedBlocks, block)
           r1    == [r EXCEPT !.minedBlocks = mined, !.i = r.i + 1]
       IN  IF r.i + 1 < config.parallelism
             THEN /\ rounds' = [rounds EXCEPT ![n] = BeginBlock(r1, config, txPool, clock)]
                  /\ evm' = resetCumulativeGas(evm)
                  /\ UNCHANGED <<dag, blocksMinedCount, emitted, mining, miningInterval,
                                 timers, mineBlocksCalls>>
             ELSE LET a     == AppendAll(dag, mined, <<>>)
                      count == blocksMinedCount + Len(a.added)
                      stops == mining /\ ListenerStops(mineBlocksCalls, count)
                  IN  /\ dag' = a.dag
                      /\ blocksMinedCount' = count
                      /\ emitted' = emitted \o EmitAll(n, mined)
                      /\ rounds' = [rounds EXCEPT ![n] =
                                       [r1 EXCEPT !.pc = "done", !.added = a.added]]
                      /\ evm' = evm
                      /\ mineBlocksCalls' = Notify(mineBlocksCalls, count)
                      /\ mining' = IF stops THEN FALSE ELSE mining
                      /\ miningInterval' = IF stops THEN FALSE ELSE miningInterval
                      /\ timers' = IF stops /\ miningInterval THEN timers - 1 ELSE timers
    /\ UNCHANGED <<helper, ws, hashOp, rpcOp, node, minerOp, evmOp, poolVars, res, call, clock, config, txPool, receipts>>

NextMiner ==
    \/ StartMining
    \/ StopMining
    \/ TimerFires
    \/ Tick
    \/ \E tx \in TxUniverse : AddTransaction(tx)
    \/ \E n \in 1..MaxRounds : ExecuteDone(n)
    \/ \E n \in 1..MaxRounds : MineBlockDone(n)

SpecMiner == InitMiner /\ [][NextMiner]_vars

\* ------------------------------------------------------------------------
\* SpecPool: a TransactionPool constructed with some maxSize is offered
\* transactions and asked for its transactions by gas price.
\* ------------------------------------------------------------------------
\* the transactions callers offer: gas prices 1, 2, 3, 5, a second transaction
\* of price 3, and one whose price is Number.MAX_SAFE_INTEGER
PoolTxs ==
    { [hash |-> "0xP1", gasPrice |-> 1], [hash |-> "0xP2", gasPrice |-> 2],
      [hash |-> "0xP3", gasPrice |-> 3], [hash |-> "0xP5", gasPrice |-> 5],
      [hash |-> "0xQ3", gasPrice |-> 3],
      [hash |-> "0xPmax", gasPrice |-> MAX_SAFE_INTEGER] }

\* the limits callers pass: none, or a count
PoolLimits == {NoLimit} \cup {<<n>> : n \in 0..MaxPoolSize}

InitPool ==
    /\ dag = NewDAG(DefaultK, 0)
    /\ res = "none"
    /\ call = NoCall
    /\ clock = 0
    /\ config = [parallelism |-> 1, maxParents |-> 1, minerAddress |-> DefaultMinerAddress]
    /\ mining = FALSE
    /\ miningInterval = FALSE
    /\ txPool = <<>>
    /\ rounds = <<>>
    /\ blocksMinedCount = 0
    /\ receipts = <<>>
    /\ emitted = <<>>
    /\ maxSize \in 0..MaxPoolSize
    /\ poolOp = NoPoolOp
    /\ evm = NewEVM
    /\ evmOp = NoEvmOp
    /\ timers = 0
    /\ minerOp = NoMinerOp
    /\ mineBlocksCalls = <<>>
    /\ node = NewNode
    /\ rpcOp = NoRpcOp
    /\ hashOp = <<>>
    /\ ws = NewWs
    /\ helper = NoHelperCall

\* pool.addTransaction(tx)
PoolAdd(tx) ==
    /\ LET r == addTransaction(txPool, maxSize, tx, clock)
       IN  /\ txPool' = r.pool
           /\ poolOp' = [op |-> "add", tx |-> tx, ok |-> r.ok]
    /\ UNCHANGED <<nodeVars, evmVars, dagVars, clock, config, mining, miningInterval, timers, rounds,
                   blocksMinedCount, receipts, emitted, maxSize>>

\* pool.getTransactionsByGasPrice(limit), or its alias getPending(limit)
PoolList(limit) ==
    /\ poolOp' = [op |-> "list", limit |-> limit, listed |-> getPending(txPool, limit)]
    /\ UNCHANGED <<nodeVars, evmVars, dagVars, clock, config, mining, miningInterval, timers, txPool, rounds,
                   blocksMinedCount, receipts, emitted, maxSize>>

NextPool ==
    \/ \E tx \in PoolTxs : PoolAdd(tx)
    \/ \E limit \in PoolLimits : PoolList(limit)

SpecPool == InitPool /\ [][NextPool]_vars

\* ------------------------------------------------------------------------
\* SpecEvm: callers of a fresh EVMExecutor execute transactions, make calls
\* and estimates, set balances and take, revert and commit checkpoints.
\* ------------------------------------------------------------------------
EvmGasLimit == 2

\* the addresses callers name besides the contract's: two plain accounts
EvmAddresses == {"0xA", "0xB"}

\* the transactions callers execute and estimate
EvmTxs ==
    { [hash |-> "0xTXE", from |-> f, to |-> t, value |-> v, gasLimit |-> EvmGasLimit] :
         f \in {"0xA", ContractAddress, InvalidAddress},
         t \in {"0xB", NoAddress},
         v \in 0..1 }

EvmBlockHash == generateTempBlockHash(<<>>, 0)

\* no account is pushed beyond the largest balance explored
WithinBalance(accounts) == \A a \in DOMAIN accounts : accounts[a].balance <= MaxBalance

InitEvm ==
    /\ dag = NewDAG(DefaultK, 0)
    /\ res = "none"
    /\ call = NoCall
    /\ clock = 0
    /\ config = [parallelism |-> 1, maxParents |-> 1, minerAddress |-> DefaultMinerAddress]
    /\ mining = FALSE
    /\ miningInterval = FALSE
    /\ txPool = <<>>
    /\ rounds = <<>>
    /\ blocksMinedCount = 0
    /\ receipts = <<>>
    /\ emitted = <<>>
    /\ maxSize = DefaultPoolSize
    /\ poolOp = NoPoolOp
    /\ evm = NewEVM
    /\ evmOp = NoEvmOp
    /\ timers = 0
    /\ minerOp = NoMinerOp
    /\ mineBlocksCalls = <<>>
    /\ node = NewNode
    /\ rpcOp = NoRpcOp
    /\ hashOp = <<>>
    /\ ws = NewWs
    /\ helper = NoHelperCall

\* executor.executeTransaction(tx, blockHash)
EvmExecute(tx) ==
    /\ evm.cumulativeGasUsed + tx.gasLimit <= MaxGas
    /\ \E x \in Executions(evm, tx) :
          LET r == executeTransaction(evm, tx, EvmBlockHash, x)
          IN  /\ WithinBalance(r.evm.accounts)
              /\ evm' = r.evm
              /\ evmOp' = [op |-> "execute", tx |-> tx, met |-> x, receipt |-> r.receipt]
    /\ UNCHANGED <<nodeVars, dagVars, minerVars, poolVars>>

\* executor.resetCumulativeGas()
EvmResetGas ==
    /\ evm' = resetCumulativeGas(evm)
    /\ evmOp' = [op |-> "resetCumulativeGas"]
    /\ UNCHANGED <<nodeVars, dagVars, minerVars, poolVars>>

\* executor.call(to, data, from, value)
EvmCall(from, to, value) ==
    /\ \E r \in SimulatedCalls(evm, from, to, value) :
          /\ WithinBalance(r.accounts)
          /\ evm' = [evm EXCEPT !.accounts = r.accounts]
          /\ evmOp' = [op |-> "call", from |-> from, to |-> to, value |-> value,
                       threw |-> r.exceptionError]
    /\ UNCHANGED <<nodeVars, dagVars, minerVars, poolVars>>

\* executor.estimateGas(tx)
EvmEstimateGas(tx) ==
    /\ \E x \in IF Throws(tx) THEN {[thrown |-> TRUE]}
                 ELSE {[thrown |-> FALSE, result |-> r] :
                          r \in SimulatedCalls(evm, tx.from, tx.to, tx.value)} :
          /\ IF x.thrown THEN TRUE ELSE WithinBalance(x.result.accounts)
          /\ evm' = IF x.thrown THEN evm ELSE [evm EXCEPT !.accounts = x.result.accounts]
          /\ evmOp' = [op |-> "estimateGas", tx |-> tx, estimate |-> estimateGas(tx, x)]
    /\ UNCHANGED <<nodeVars, dagVars, minerVars, poolVars>>

\* executor.setBalance(address, balance)
EvmSetBalance(a, balance) ==
    /\ evm' = setBalance(evm, a, balance)
    /\ evmOp' = [op |-> "setBalance", address |-> a, balance |-> balance]
    /\ UNCHANGED <<nodeVars, dagVars, minerVars, poolVars>>

\* executor.checkpoint()
EvmCheckpoint ==
    /\ Len(evm.checkpoints) < MaxCheckpoints
    /\ evm' = checkpoint(evm)
    /\ evmOp' = [op |-> "checkpoint"]
    /\ UNCHANGED <<nodeVars, dagVars, minerVars, poolVars>>

\* executor.revert()
EvmRevert ==
    /\ Len(evm.checkpoints) > 0
    /\ evm' = revert(evm)
    /\ evmOp' = [op |-> "revert"]
    /\ UNCHANGED <<nodeVars, dagVars, minerVars, poolVars>>

\* executor.commit()
EvmCommit ==
    /\ Len(evm.checkpoints) > 0
    /\ evm' = commit(evm)
    /\ evmOp' = [op |-> "commit"]
    /\ UNCHANGED <<nodeVars, dagVars, minerVars, poolVars>>

NextEvm ==
    \/ \E tx \in EvmTxs : EvmExecute(tx)
    \/ EvmResetGas
    \/ \E from \in {"0xA", ContractAddress}, value \in 0..1 : EvmCall(from, "0xB", value)
    \/ \E tx \in EvmTxs : EvmEstimateGas(tx)
    \/ \E a \in EvmAddresses \cup {ContractAddress}, balance \in 0..MaxBalance :
          EvmSetBalance(a, balance)
    \/ EvmCheckpoint
    \/ EvmRevert
    \/ EvmCommit

SpecEvm == InitEvm /\ [][NextEvm]_vars

\* ------------------------------------------------------------------------
\* SpecControl: callers start and stop a Miner and update its configuration,
\* in any order and any state of the miner, while its rounds run and its
\* interval timer fires.  minerOp records each call: what it was, whether the
\* miner was mining, the events the call emitted and how many calls were made.
\* ------------------------------------------------------------------------
MinerCall(op, events) ==
    [op |-> op, wasMining |-> mining, events |-> events, calls |-> minerOp.calls + 1]

\* there is room for one more round of p blocks
RoomForRound(p) == Len(rounds) < MaxRounds /\ (Len(rounds) + 1) * p <= MaxMined

InitControl ==
    /\ dag = NewDAG(0, 0)
    /\ res = "none"
    /\ call = NoCall
    /\ clock = 0
    /\ config = [parallelism |-> 1, maxParents |-> 1, minerAddress |-> DefaultMinerAddress]
    /\ mining = FALSE
    /\ miningInterval = FALSE
    /\ txPool = <<>>
    /\ rounds = <<>>
    /\ blocksMinedCount = 0
    /\ receipts = <<>>
    /\ emitted = <<>>
    /\ maxSize = DefaultPoolSize
    /\ poolOp = NoPoolOp
    /\ evm = NewEVM
    /\ evmOp = NoEvmOp
    /\ timers = 0
    /\ minerOp = NoMinerOp
    /\ mineBlocksCalls = <<>>
    /\ node = NewNode
    /\ rpcOp = NoRpcOp
    /\ hashOp = <<>>
    /\ ws = NewWs
    /\ helper = NoHelperCall

\* miner.startMining() without its test of this.mining
CtlStartMiningUnguarded ==
    /\ minerOp.calls < MaxCalls
    /\ RoomForRound(config.parallelism)
    /\ mining' = TRUE
    /\ miningInterval' = TRUE
    /\ timers' = timers + 1
    /\ rounds' = Append(rounds, BeginRound(dag, config, txPool, clock))
    /\ evm' = resetCumulativeGas(evm)
    /\ minerOp' = MinerCall("startMining", <<"miningStarted">>)
    /\ UNCHANGED <<helper, ws, hashOp, rpcOp, node, mineBlocksCalls, evmOp, poolVars, dagVars, clock, config, txPool, blocksMinedCount,
                   receipts, emitted>>

\* miner.startMining(), called in any state of the miner
CtlStartMining ==
    /\ minerOp.calls < MaxCalls
    /\ IF mining
         THEN /\ minerOp' = MinerCall("startMining", <<>>)
              /\ UNCHANGED <<helper, ws, hashOp, rpcOp, node, mineBlocksCalls, dagVars, minerVars, poolVars, evmVars>>
         ELSE /\ RoomForRound(config.parallelism)
              /\ mining' = TRUE
              /\ miningInterval' = TRUE
              /\ timers' = timers + 1
              /\ rounds' = Append(rounds, BeginRound(dag, config, txPool, clock))
              /\ evm' = resetCumulativeGas(evm)
              /\ minerOp' = MinerCall("startMining", <<"miningStarted">>)
              /\ UNCHANGED <<helper, ws, hashOp, rpcOp, node, mineBlocksCalls, evmOp, poolVars, dagVars, clock, config, txPool,
                             blocksMinedCount, receipts, emitted>>

\* miner.stopMining(), called in any state of the miner
CtlStopMining ==
    /\ minerOp.calls < MaxCalls
    /\ IF ~mining
         THEN /\ minerOp' = MinerCall("stopMining", <<>>)
              /\ UNCHANGED <<helper, ws, hashOp, rpcOp, node, mineBlocksCalls, dagVars, minerVars, poolVars, evmVars>>
         ELSE /\ mining' = FALSE
              /\ miningInterval' = FALSE
              /\ timers' = IF miningInterval THEN timers - 1 ELSE timers
              /\ minerOp' = MinerCall("stopMining", <<"miningStopped">>)
              /\ UNCHANGED <<helper, ws, hashOp, rpcOp, node, mineBlocksCalls, evmVars, poolVars, dagVars, clock, config, txPool, rounds,
                             blocksMinedCount, receipts, emitted>>

\* miner.updateConfig({parallelism: p}): stopMining if mining, the merge,
\* startMining if it was mining
CtlUpdateConfig(p) ==
    /\ minerOp.calls < MaxCalls
    /\ config' = [config EXCEPT !.parallelism = p]
    /\ IF ~mining
         THEN /\ minerOp' = MinerCall("updateConfig", <<>>)
              /\ UNCHANGED <<mining, miningInterval, timers, rounds, evm>>
         ELSE /\ RoomForRound(p)
              /\ mining' = TRUE
              /\ miningInterval' = TRUE
              /\ timers' = (IF miningInterval THEN timers - 1 ELSE timers) + 1
              /\ rounds' = Append(rounds, BeginRound(dag, config', txPool, clock))
              /\ evm' = resetCumulativeGas(evm)
              /\ minerOp' = MinerCall("updateConfig", <<"miningStopped", "miningStarted">>)
    /\ UNCHANGED <<helper, ws, hashOp, rpcOp, node, mineBlocksCalls, evmOp, poolVars, dagVars, clock, txPool, blocksMinedCount, receipts,
                   emitted>>

NextControl ==
    \/ CtlStartMining
    \/ CtlStopMining
    \/ \E p \in 1..MaxParallelism : CtlUpdateConfig(p)
    \/ TimerFires
    \/ Tick
    \/ \E n \in 1..MaxRounds : MineBlockDone(n)

SpecControl == InitControl /\ [][NextControl]_vars

\* ------------------------------------------------------------------------
\* SpecMineBlocks: callers of LocalNode.mineBlocks(count), one call or several
\* in progress at once, on a node whose miner is idle.  The interval timer
\* fires for as long as it is set and every round that began goes on.
\* ------------------------------------------------------------------------
InitMineBlocks ==
    /\ dag = NewDAG(0, 0)
    /\ res = "none"
    /\ call = NoCall
    /\ clock = 0
    /\ \E par \in 1..MaxParallelism :
          config = [parallelism |-> par, maxParents |-> 1,
                    minerAddress |-> DefaultMinerAddress]
    /\ mining = FALSE
    /\ miningInterval = FALSE
    /\ txPool = <<>>
    /\ rounds = <<>>
    /\ blocksMinedCount = 0
    /\ receipts = <<>>
    /\ emitted = <<>>
    /\ maxSize = DefaultPoolSize
    /\ poolOp = NoPoolOp
    /\ evm = NewEVM
    /\ evmOp = NoEvmOp
    /\ timers = 0
    /\ minerOp = NoMinerOp
    /\ mineBlocksCalls = <<>>
    /\ node = NewNode
    /\ rpcOp = NoRpcOp
    /\ hashOp = <<>>
    /\ ws = NewWs
    /\ helper = NoHelperCall

\* mineBlocks(count) up to the promise it returns: the miner is started if it
\* is idle and the listener is put on 'blockMined'
MineBlocks(count) ==
    /\ Len(mineBlocksCalls) < MaxMineBlocksCalls
    /\ mineBlocksCalls' = Append(mineBlocksCalls,
           [count |-> count, startCount |-> blocksMinedCount, wasRunning |-> mining,
            pc |-> "waiting"])
    /\ IF mining
         THEN UNCHANGED <<mining, miningInterval, timers, rounds, evm>>
         ELSE /\ RoomForRound(config.parallelism)
              /\ mining' = TRUE
              /\ miningInterval' = TRUE
              /\ timers' = timers + 1
              /\ rounds' = Append(rounds, BeginRound(dag, config, txPool, clock))
              /\ evm' = resetCumulativeGas(evm)
    /\ UNCHANGED <<helper, ws, hashOp, rpcOp, node, minerOp, evmOp, poolVars, dagVars, clock, config, txPool,
                   blocksMinedCount, receipts, emitted>>

NextMineBlocks ==
    \/ \E count \in 1..MaxCount : MineBlocks(count)
    \/ TimerFires
    \/ \E n \in 1..MaxRounds : MineBlockDone(n)

\* the timer fires while it is set, and a round that awaits is resumed
FairMineBlocks ==
    /\ WF_vars(TimerFires)
    /\ \A n \in 1..MaxRounds : WF_vars(MineBlockDone(n))

SpecMineBlocks == InitMineBlocks /\ [][NextMineBlocks]_vars /\ FairMineBlocks

\* ------------------------------------------------------------------------
\* Graph-theoretic vocabulary of the properties, defined on the stored parent
\* lists alone (not through the graph's walks, maps or cached fields)
\* ------------------------------------------------------------------------
ParentsOf(d, h) == Range(getBlock(d, h).parentHashes) \cap BlockHashes(d)

\* the least set holding S and the parents of its members
RECURSIVE ParentClosure(_, _)
ParentClosure(d, S) ==
    LET T == S \cup UNION {ParentsOf(d, x) : x \in S}
    IN  IF T = S THEN S ELSE ParentClosure(d, T)

\* the blocks h reaches through one or more parent links
AncestorSet(d, h) == ParentClosure(d, ParentsOf(d, h))

\* the ancestor set of every stored block
AncestorSets(d) == [h \in BlockHashes(d) |-> AncestorSet(d, h)]


BlueHashes(d) == {h \in BlockHashes(d) : getBlock(d, h).color = "blue"}

ParentlessBlocks(d) == {i \in 1..Len(d.blocks) : Len(d.blocks[i].parentHashes) = 0}

SetMax(S) == CHOOSE m \in S : \A x \in S : x <= m

NoDuplicates(s) == \A i, j \in 1..Len(s) : s[i] = s[j] => i = j

\* the parent lists a round has chosen so far: those of its built blocks and
\* the one of the block it is building
RoundParentLists(r) ==
    {r.minedBlocks[j].parentHashes : j \in 1..Len(r.minedBlocks)}
      \cup (IF r.pc # "done" THEN {r.parents} ELSE {})

\* the transactions of the blocks round r got into the DAG
RoundIncludedTx(r) ==
    UNION {Range(r.minedBlocks[j].transactions) :
              j \in {m \in 1..Len(r.minedBlocks) : SeqContains(r.added, r.minedBlocks[m].hash)}}

\* ------------------------------------------------------------------------
\* C1
\* ------------------------------------------------------------------------
\* C1: every block a mining round builds has between 1 and maxParents parents,
\* all distinct and all members of the tips snapshot the round took when it
\* began, and no block of a round names a block of the same round as a parent.
C1_ParentsFromRoundSnapshot ==
    \A n \in 1..Len(rounds) :
        LET r == rounds[n]
        IN  /\ \A ps \in RoundParentLists(r) :
                 /\ Len(ps) >= 1
                 /\ Len(ps) <= config.maxParents
                 /\ NoDuplicates(ps)
                 /\ Range(ps) \subseteq Range(r.tips)
            /\ \A j, m \in 1..Len(r.minedBlocks) :
                 ~SeqContains(r.minedBlocks[j].parentHashes, r.minedBlocks[m].hash)

C1_Witness ==
    \E n \in 1..Len(rounds) :
        /\ rounds[n].pc = "done"
        /\ Len(rounds[n].tips) = 2
        /\ config.maxParents = 1
        /\ Len(rounds[n].minedBlocks) = 2
        /\ rounds[n].minedBlocks[1].parentHashes # rounds[n].minedBlocks[2].parentHashes

\* ------------------------------------------------------------------------
\* C2
\* ------------------------------------------------------------------------
\* C2: a completed round with parallelism P has appended exactly P new blocks
\* to the DAG, whatever the times at which its blocks were created; after the
\* first round of a DAG that held only the genesis there are P tips, all at
\* depth 1 and each with the genesis as its single parent.
C2_RoundAppendsParallelismBlocks ==
    /\ \A n \in 1..Len(rounds) :
          rounds[n].pc = "done" => Len(rounds[n].added) = config.parallelism
    /\ (/\ Len(rounds) >= 1
        /\ rounds[1].pc = "done"
        /\ \A n \in 2..Len(rounds) : rounds[n].pc # "done")
          => /\ Len(dag.tips) = config.parallelism
             /\ \A j \in 1..Len(dag.tips) :
                   /\ getBlock(dag, dag.tips[j]).dagDepth = 1
                   /\ getBlock(dag, dag.tips[j]).parentHashes = <<dag.genesisHash>>

\* ------------------------------------------------------------------------
\* C3
\* ------------------------------------------------------------------------
\* C3: when a mining round has appended its blocks, none of the transactions
\* of those blocks is in the mempool any more; and no transaction is in
\* blocks of two different rounds.
C3_IncludedTxLeavePool ==
    /\ [][ \A n \in 1..Len(rounds) :
              (rounds[n].pc = "building" /\ rounds'[n].pc = "done")
                 => \A t \in RoundIncludedTx(rounds'[n]) : ~poolHas(txPool', t.hash) ]_vars
    /\ [](\A n, m \in 1..Len(rounds) :
              n # m => RoundIncludedTx(rounds[n]) \cap RoundIncludedTx(rounds[m]) = {})

\* ------------------------------------------------------------------------
\* C4
\* ------------------------------------------------------------------------
\* C4: addBlock(b) returns already-present when b's hash is stored, and is
\* rejected with missing-parent when b's hash is new and some hash of its
\* parent list (b's own hash included) is not stored; in both cases the block
\* map, the children map, the tips and every block's depth and colour are
\* exactly what they were before the call.
C4_RejectedAddLeavesGraph ==
    [][ /\ call' = "hash-stored" => (res' = "already-present" /\ dag' = dag)
        /\ call' \in {"own-hash-as-parent", "parent-missing"}
              => (res' = "missing-parent" /\ dag' = dag) ]_vars

C4_Witness ==
    /\ res = "missing-parent"
    /\ call = "own-hash-as-parent"
    /\ Len(dag.blocks) > 2

\* ------------------------------------------------------------------------
\* C5
\* ------------------------------------------------------------------------
\* C5: the tip set is exactly the set of stored blocks that no stored block
\* names as a parent, and it is never empty.
C5_TipsAreChildless ==
    /\ Range(dag.tips) =
         {h \in BlockHashes(dag) :
             \A i \in 1..Len(dag.blocks) : ~SeqContains(dag.blocks[i].parentHashes, h)}
    /\ Len(dag.tips) > 0

C5_Witness ==
    /\ Len(dag.tips) >= 2
    /\ dag.genesisHash \notin Range(dag.tips)
    /\ Len(dag.blocks) > Len(dag.tips) + 1

\* ------------------------------------------------------------------------
\* C6
\* ------------------------------------------------------------------------
\* C6: for every k >= 0 explored, at least one tip of the DAG is blue.
C6_SomeTipBlue ==
    \E i \in 1..Len(dag.tips) : isBlue(dag, dag.tips[i])

C6_Witness ==
    /\ dag.genesisHash \notin Range(dag.tips)
    /\ \E i \in 1..Len(dag.tips) : ~isBlue(dag, dag.tips[i])
    /\ \E i \in 1..Len(dag.tips) : isBlue(dag, dag.tips[i])

\* ------------------------------------------------------------------------
\* C7
\* ------------------------------------------------------------------------
\* C7: a stored block has dagDepth 0 iff it is the genesis, and every stored
\* block with parents has dagDepth 1 + the largest dagDepth of its parents.
C7_DepthIsLongestPath ==
    \A i \in 1..Len(dag.blocks) :
        LET b == dag.blocks[i]
        IN  /\ (b.dagDepth = 0) <=> (b.hash = dag.genesisHash)
            /\ Len(b.parentHashes) > 0 =>
                 b.dagDepth = 1 + SetMax({getBlock(dag, p).dagDepth : p \in ParentsOf(dag, b.hash)})

C7_Witness ==
    \E i \in 1..Len(dag.blocks) :
        LET b == dag.blocks[i]
        IN  /\ Len(b.parentHashes) = 2
            /\ getBlock(dag, b.parentHashes[1]).dagDepth
                 < getBlock(dag, b.parentHashes[2]).dagDepth
            /\ b.dagDepth = 3

\* ------------------------------------------------------------------------
\* C8
\* ------------------------------------------------------------------------
\* C8: whatever blocks callers pass to addBlock, the DAG holds exactly one
\* block with an empty parent list, the genesis; getGenesisHash is the hash it
\* was at construction, and the genesis is blue.
C8_SingleGenesis ==
    /\ Cardinality(ParentlessBlocks(dag)) = 1
    /\ getGenesisHash(dag) = GenesisKey
    /\ isBlue(dag, getGenesisHash(dag))

\* ------------------------------------------------------------------------
\* C9
\* ------------------------------------------------------------------------
\* C9: each blue block's blueScore equals the number of blue blocks among
\* its ancestors.
C9_BlueScoreCountsBlueAncestors ==
    \A h \in BlueHashes(dag) :
        getBlock(dag, h).blueScore = Cardinality(AncestorSet(dag, h) \cap BlueHashes(dag))

\* ------------------------------------------------------------------------
\* C10
\* ------------------------------------------------------------------------
\* The DAG of anticone-test.ts: G; B1, B2, B3 on G; B4 on B1, B2; B5 on B3;
\* B6 on B4, B5, each block built by the Block constructor for its own miner.
DiamondB1 == NewBlock(<<GenesisKey>>, <<>>, "0xMiner1", 0)
DiamondB2 == NewBlock(<<GenesisKey>>, <<>>, "0xMiner2", 0)
DiamondB3 == NewBlock(<<GenesisKey>>, <<>>, "0xMiner3", 0)
DiamondB4 == NewBlock(<<DiamondB1.hash, DiamondB2.hash>>, <<>>, "0xMiner4", 0)
DiamondB5 == NewBlock(<<DiamondB3.hash>>, <<>>, "0xMiner5", 0)
DiamondB6 == NewBlock(<<DiamondB4.hash, DiamondB5.hash>>, <<>>, "0xMiner6", 0)

RECURSIVE AddAll(_, _)
AddAll(d, bs) == IF Len(bs) = 0 THEN d ELSE AddAll(addBlock(d, Head(bs)).dag, Tail(bs))

DiamondDag ==
    AddAll(NewDAG(DefaultK, 0),
           <<DiamondB1, DiamondB2, DiamondB3, DiamondB4, DiamondB5, DiamondB6>>)

DiamondFacts ==
    /\ getBlockCount(DiamondDag) = 7
    /\ getAnticone(DiamondDag, DiamondB1.hash) = {DiamondB2.hash, DiamondB3.hash, DiamondB5.hash}
    /\ getAnticone(DiamondDag, DiamondB2.hash) = {DiamondB1.hash, DiamondB3.hash, DiamondB5.hash}
    /\ getAnticone(DiamondDag, DiamondB6.hash) = {}
    /\ Cardinality(getAncestors(DiamondDag, DiamondB6.hash)) = 6
    /\ Cardinality(getDescendants(DiamondDag, GenesisKey)) = 6
    /\ getDescendants(DiamondDag, DiamondB1.hash) = {DiamondB4.hash, DiamondB6.hash}

\* C10: for every stored block b the sets {b}, ancestors(b), descendants(b)
\* and anticone(b) are pairwise disjoint and together are all stored blocks;
\* ancestors(b) is exactly what b reaches through parent links and
\* descendants(b) exactly what reaches b; and the diamond of anticone-test.ts
\* has anticone(B1) = {B2, B3, B5} and anticone(B6) = {}.
C10_ConesPartitionTheDag ==
    /\ LET reach == AncestorSets(dag)
       IN  \A h \in BlockHashes(dag) :
             LET A == getAncestors(dag, h)
                 D == getDescendants(dag, h)
                 X == getAnticone(dag, h)
             IN  /\ h \notin A \cup D \cup X
                 /\ A \cap D = {}
                 /\ A \cap X = {}
                 /\ D \cap X = {}
                 /\ {h} \cup A \cup D \cup X = BlockHashes(dag)
                 /\ A = reach[h]
                 /\ D = {c \in BlockHashes(dag) : h \in reach[c]}
    /\ DiamondFacts

C10_Witness ==
    /\ \E h \in BlockHashes(dag) :
          /\ getAncestors(dag, h) # {}
          /\ getDescendants(dag, h) # {}
          /\ getAnticone(dag, h) # {}
    /\ \E h \in BlockHashes(dag) : Cardinality(getAncestors(dag, h)) >= 2

\* ------------------------------------------------------------------------
\* Vocabulary of the mempool properties
\* ------------------------------------------------------------------------
PoolHashes(pool) == {pool[i].tx.hash : i \in 1..Len(pool)}

\* the entries of pool with the i-th taken out
RemoveAt(pool, i) == [j \in 1..(Len(pool) - 1) |-> IF j < i THEN pool[j] ELSE pool[j + 1]]

PoolEntry(tx, now) == [tx |-> tx, addedAt |-> now, attempts |-> 0]

\* entry i has the lowest gasPrice in pool
IsLowest(pool, i) == \A j \in 1..Len(pool) : pool[i].tx.gasPrice <= pool[j].tx.gasPrice

\* the place of entry i when pool is listed by falling gasPrice, entries of
\* equal gasPrice in admission order
ListRank(pool, i) ==
    1 + Cardinality({j \in 1..Len(pool) :
                        \/ pool[j].tx.gasPrice > pool[i].tx.gasPrice
                        \/ pool[j].tx.gasPrice = pool[i].tx.gasPrice /\ j < i})

\* the first m transactions of that listing
ListedFirst(pool, m) ==
    [k \in 1..m |-> pool[CHOOSE i \in 1..Len(pool) : ListRank(pool, i) = k].tx]

\* ------------------------------------------------------------------------
\* C11
\* ------------------------------------------------------------------------
\* C11: the pool never holds more than maxSize transactions, for every
\* maxSize the constructor accepts and every gasPrice of the transactions held.
C11_SizeWithinMaxSize == Len(txPool) <= maxSize

\* ------------------------------------------------------------------------
\* C12
\* ------------------------------------------------------------------------
\* C12: addTransaction on a pool holding exactly maxSize entries (one or
\* more) removes exactly one entry, one of lowest gasPrice, before it inserts;
\* on a pool holding fewer it removes nothing.
C12_FullPoolEvictsOneLowest ==
    [][ poolOp'.op = "add" =>
          LET entry == PoolEntry(poolOp'.tx, clock)
          IN  /\ (Len(txPool) = maxSize /\ Len(txPool) > 0) =>
                    \E i \in 1..Len(txPool) :
                        /\ IsLowest(txPool, i)
                        /\ txPool' \in {RemoveAt(txPool, i), Append(RemoveAt(txPool, i), entry)}
              /\ Len(txPool) < maxSize => txPool' \in {txPool, Append(txPool, entry)} ]_vars

\* ------------------------------------------------------------------------
\* C13
\* ------------------------------------------------------------------------
\* the pool holds maxSize entries, at least one, and is offered a transaction
\* of a hash it does not hold and of a gasPrice below that of every entry
LowestOffered(tx) ==
    /\ Len(txPool) = maxSize
    /\ Len(txPool) > 0
    /\ ~poolHas(txPool, tx.hash)
    /\ \A i \in 1..Len(txPool) : tx.gasPrice < txPool[i].tx.gasPrice

\* C13 as stated: a full pool offered a transaction cheaper than every entry
\* it holds does not hold the newcomer afterwards and still holds every entry
\* it held.
C13_CheapNewcomerRejected ==
    [][ (poolOp'.op = "add" /\ LowestOffered(poolOp'.tx)) =>
           /\ ~poolHas(txPool', poolOp'.tx.hash)
           /\ PoolHashes(txPool) \subseteq PoolHashes(txPool') ]_vars

\* C13 amended: a full pool offered a transaction of a new hash, cheaper than
\* every entry it holds, holds the newcomer afterwards, and of the entries it
\* held at most one is missing, one of lowest gasPrice (maxSize 3, prices 5, 2,
\* 3 then 1: the transaction of price 1 is present, that of price 2 absent).
C13_CheapNewcomerAdmitted ==
    [][ (poolOp'.op = "add" /\ LowestOffered(poolOp'.tx)) =>
           LET missing == {i \in 1..Len(txPool) : ~poolHas(txPool', txPool[i].tx.hash)}
           IN  /\ poolHas(txPool', poolOp'.tx.hash)
               /\ Cardinality(missing) <= 1
               /\ \A i \in missing : IsLowest(txPool, i)
               /\ (maxSize = 3 /\ [i \in 1..3 |-> txPool[i].tx.gasPrice] = <<5, 2, 3>>
                      /\ poolOp'.tx.gasPrice = 1)
                    => [i \in 1..Len(txPool') |-> txPool'[i].tx.gasPrice] = <<5, 3, 1>> ]_vars

C13_Witness ==
    /\ maxSize = 3
    /\ poolOp.op = "add"
    /\ poolOp.tx.gasPrice = 1
    /\ [i \in 1..Len(txPool) |-> txPool[i].tx.gasPrice] = <<5, 3, 1>>

\* ------------------------------------------------------------------------
\* C14
\* ------------------------------------------------------------------------
\* C14: getTransactionsByGasPrice(limit) / getPending(limit) returns the held
\* transactions by falling gasPrice, equal prices in admission order, cut to
\* the first `limit` when a limit is given, and leaves the pool as it was.
C14_ListedByGasPrice ==
    [][ poolOp'.op = "list" =>
          LET limit == poolOp'.limit
              m     == IF limit = NoLimit \/ limit[1] > Len(txPool)
                         THEN Len(txPool) ELSE limit[1]
          IN  /\ txPool' = txPool
              /\ poolOp'.listed = ListedFirst(txPool, m) ]_vars

\* ------------------------------------------------------------------------
\* C15
\* ------------------------------------------------------------------------
\* C15: a receipt getReceipt(h) has once returned is what every later
\* getReceipt(h) returns: no step of the node changes or removes a stored
\* receipt.
C15_ReceiptImmutable ==
    [][ \A h \in DOMAIN receipts : getReceipt(receipts', h) = getReceipt(receipts, h) ]_vars

\* ------------------------------------------------------------------------
\* C16
\* ------------------------------------------------------------------------
\* the sum of gasUsed over the first j receipts of rs
RECURSIVE SumGasUsed(_, _)
SumGasUsed(rs, j) == IF j = 0 THEN 0 ELSE rs[j].gasUsed + SumGasUsed(rs, j - 1)

\* C16: in every block being built, the receipt of the block's j-th
\* transaction carries as cumulativeGasUsed the sum of gasUsed over the
\* block's first j transactions, whatever other rounds do on the executor
\* in between.
C16_CumulativeGasIsBlockSum ==
    \A n \in 1..Len(rounds) :
        \A j \in 1..Len(rounds[n].blockReceipts) :
            rounds[n].blockReceipts[j].cumulativeGasUsed
               = SumGasUsed(rounds[n].blockReceipts, j)

\* ------------------------------------------------------------------------
\* C17
\* ------------------------------------------------------------------------
\* C17: the receipt's gasUsed is the gas the execution consumed: the gas the
\* execution used (gasLimit minus the gas remaining) when it succeeds, and the
\* whole gasLimit when it ends in an exception, the receipt's status then
\* being failed.
C17_GasUsedIsGasConsumed ==
    evmOp.op = "execute" =>
        LET failed == IF evmOp.met.thrown THEN TRUE ELSE evmOp.met.result.exceptionError
        IN  /\ (evmOp.receipt.status = "failed") <=> failed
            /\ evmOp.receipt.gasUsed =
                  IF failed THEN evmOp.tx.gasLimit
                  ELSE evmOp.met.result.executionGasUsed

\* ------------------------------------------------------------------------
\* C18
\* ------------------------------------------------------------------------
\* C18: call and estimateGas leave the world state as it was: the accounts
\* (so every balance and the state root computed from them) and the
\* outstanding checkpoints are the same after the operation as before, also
\* for a message that transfers value.
C18_SimulationLeavesState ==
    [][ evmOp'.op \in {"call", "estimateGas"} =>
           /\ evm'.accounts = evm.accounts
           /\ evm'.checkpoints = evm.checkpoints ]_vars

\* ------------------------------------------------------------------------
\* C19
\* ------------------------------------------------------------------------
\* C19: after setBalance(A, x) getBalance(A) is x, for every address A, also
\* one without account; checkpoint() changes no balance; and revert() gives
\* every address the balance it had when the latest outstanding checkpoint
\* was taken and leaves the earlier checkpoints outstanding (last in, first
\* out).
C19_CheckpointRevertBalances ==
    [][ /\ evmOp'.op = "setBalance" =>
              getBalance(evm', evmOp'.address) = evmOp'.balance
        /\ evmOp'.op = "checkpoint" =>
              \A a \in EvmAddresses \cup {ContractAddress} :
                  getBalance(evm', a) = getBalance(evm, a)
        /\ evmOp'.op = "revert" =>
              /\ evm'.accounts = Head(evm.checkpoints)
              /\ evm'.checkpoints = Tail(evm.checkpoints) ]_vars

\* ------------------------------------------------------------------------
\* C20
\* ------------------------------------------------------------------------
\* the hashes of the events round n has emitted, in emission order
RECURSIVE RoundEvents(_, _)
RoundEvents(evs, n) ==
    IF Len(evs) = 0 THEN <<>>
    ELSE (IF Head(evs).round = n THEN <<Head(evs).hash>> ELSE <<>>)
            \o RoundEvents(Tail(evs), n)

\* a is e with some members left out
RECURSIVE IsSubsequence(_, _)
IsSubsequence(a, e) ==
    IF Len(a) = 0 THEN TRUE
    ELSE IF Len(e) = 0 THEN FALSE
    ELSE IF Head(a) = Head(e) THEN IsSubsequence(Tail(a), Tail(e))
    ELSE IsSubsequence(a, Tail(e))

\* C20: the hash of every emitted blockMined event resolves to a block of
\* the DAG, and the blocks a round appended have their events in the order
\* in which the round appended them.
C20_EventsFollowAppends ==
    /\ \A i \in 1..Len(emitted) : hasBlock(dag, emitted[i].hash)
    /\ \A n \in 1..Len(rounds) :
          /\ rounds[n].pc # "done" => RoundEvents(emitted, n) = <<>>
          /\ rounds[n].pc = "done" =>
                /\ Len(RoundEvents(emitted, n)) = Len(rounds[n].minedBlocks)
                /\ IsSubsequence(rounds[n].added, RoundEvents(emitted, n))

C20_Witness ==
    \E n \in 1..Len(rounds) :
        /\ rounds[n].pc = "done"
        /\ Len(rounds[n].added) = 2
        /\ rounds[n].added[1] # rounds[n].added[2]
        /\ RoundEvents(emitted, n) = rounds[n].added

\* ------------------------------------------------------------------------
\* C21
\* ------------------------------------------------------------------------
\* C21: one blockMined event is emitted per block committed to the DAG: the
\* number of events emitted so far is blocksMinedCount whenever a round has
\* ended, and the events of a round are those of the blocks whose addBlock
\* returned true, none being emitted for a block that was not added.
C21_OneEventPerCommittedBlock ==
    /\ Len(emitted) = blocksMinedCount
    /\ \A n \in 1..Len(rounds) :
          rounds[n].pc = "done" => RoundEvents(emitted, n) = rounds[n].added

\* ------------------------------------------------------------------------
\* C22
\* ------------------------------------------------------------------------
\* a call of startMining, stopMining or updateConfig is made in this step
MinerCalled(op) == minerOp'.calls # minerOp.calls /\ minerOp'.op = op

\* C22: the miner has an active interval timer iff it is mining, and never
\* more than one; startMining on a mining miner begins no round, creates no
\* timer and emits no event, and stopMining on a stopped miner does nothing;
\* while the miner is stopped no round begins but by a call that starts it;
\* and updateConfig leaves the miner mining iff it was mining.
C22_MinerLifecycle ==
    /\ [](timers = (IF mining THEN 1 ELSE 0) /\ (miningInterval <=> mining))
    /\ [][ /\ (MinerCalled("startMining") /\ mining) =>
                 /\ minerOp'.events = <<>>
                 /\ UNCHANGED <<helper, ws, hashOp, rpcOp, node, mineBlocksCalls, dagVars, minerVars, poolVars, evmVars>>
           /\ (MinerCalled("stopMining") /\ ~mining) =>
                 /\ minerOp'.events = <<>>
                 /\ UNCHANGED <<helper, ws, hashOp, rpcOp, node, mineBlocksCalls, dagVars, minerVars, poolVars, evmVars>>
           /\ (~mining /\ Len(rounds') > Len(rounds)) =>
                 MinerCalled("startMining") /\ mining'
           /\ MinerCalled("updateConfig") => (mining' <=> mining) ]_vars

C22_Witness ==
    /\ minerOp.op = "startMining"
    /\ minerOp.wasMining
    /\ Len(rounds) >= 1
    /\ mining

\* ------------------------------------------------------------------------
\* C23
\* ------------------------------------------------------------------------
\* the i-th mineBlocks call has returned
Returned(i) == i <= Len(mineBlocksCalls) /\ mineBlocksCalls[i].pc = "returned"

\* C23: every mineBlocks(count) call with count >= 1 returns in the end, with
\* the timer firing while the miner is mining, also when another call with
\* another count is in progress; a call still waits only where the rounds
\* explored are used up.
C23_MineBlocksReturns ==
    \A i \in 1..MaxMineBlocksCalls :
        [](i <= Len(mineBlocksCalls) =>
              <>(Returned(i) \/ ~RoomForRound(config.parallelism)))

\* ------------------------------------------------------------------------
\* LocalNode: start, stop and addTransaction, with the two servers
\* ------------------------------------------------------------------------
\* A call of start() or stop() runs to its first await and goes on when the
\* awaited server reports; node.calls keeps each call with the place it has
\* reached.  A server's own isRunning is set by its 'listening' callback; a
\* listen on a port another listen already holds fails and its promise is
\* never resolved.

\* the transactions callers submit to the node
NodeTxs == {t \in PoolTxs : t.hash \in {"0xP1", "0xP2"}}

NodeEvent(name, txHash) == [name |-> name, tx |-> txHash]

CountEvents(evs, name) == Cardinality({i \in DOMAIN evs : evs[i].name = name})

NodeCallInProgress(op) ==
    \E c \in DOMAIN node.calls :
        node.calls[c].op = op /\ node.calls[c].pc \notin {"returned", "stuck"}

InitNode ==
    /\ dag = NewDAG(0, 0)
    /\ res = "none"
    /\ call = NoCall
    /\ clock = 0
    /\ config = [parallelism |-> 1, maxParents |-> 1, minerAddress |-> DefaultMinerAddress]
    /\ mining = FALSE
    /\ miningInterval = FALSE
    /\ txPool = <<>>
    /\ rounds = <<>>
    /\ blocksMinedCount = 0
    /\ receipts = <<>>
    /\ emitted = <<>>
    /\ maxSize = DefaultPoolSize
    /\ poolOp = NoPoolOp
    /\ evm = NewEVM
    /\ evmOp = NoEvmOp
    /\ timers = 0
    /\ minerOp = NoMinerOp
    /\ mineBlocksCalls = <<>>
    /\ node = NewNode
    /\ rpcOp = NoRpcOp
    /\ hashOp = <<>>
    /\ ws = NewWs
    /\ helper = NoHelperCall

\* RPCServer.start as start() calls it: nothing when the server is running,
\* else app.listen
RpcServerStart(n, op) ==
    IF n.rpcRunning
      THEN [n EXCEPT !.calls = Append(@, [op |-> op, pc |-> "rpc"])]
      ELSE [n EXCEPT !.rpcListens = @ + 1,
                     !.rpcBound   = TRUE,
                     !.calls      = Append(@, [op |-> op,
                                              pc |-> IF n.rpcBound THEN "stuck"
                                                                   ELSE "rpcListen"])]

\* LocalNode.start up to its first await
NodeStart ==
    /\ Len(node.calls) < MaxNodeCalls
    /\ node' = IF node.isRunning
                 THEN [node EXCEPT !.calls = Append(@, [op |-> "start", pc |-> "returned"])]
                 ELSE RpcServerStart(node, "start")
    /\ UNCHANGED <<helper, ws, hashOp, rpcOp, minerOp, mineBlocksCalls, dagVars, minerVars, poolVars, evmVars>>

\* WebSocketServer.start as start() calls it: nothing when the server is
\* running, else new WSServer({port})
WsServerStart(n, c) ==
    IF n.wsRunning
      THEN [n EXCEPT !.calls[c].pc = "ws"]
      ELSE [n EXCEPT !.wsCreated   = @ + 1,
                     !.wsBound     = TRUE,
                     !.calls[c].pc = IF n.wsBound THEN "stuck" ELSE "wsListen"]

\* start() after `await this.rpcServer.start()`: the listen callback has set
\* the server's isRunning; wsServer.start() is called
NodeStartRpcDone(c) ==
    /\ c \in DOMAIN node.calls
    /\ node.calls[c].op = "start"
    /\ node.calls[c].pc \in {"rpc", "rpcListen"}
    /\ node' = WsServerStart([node EXCEPT !.rpcRunning = TRUE], c)
    /\ UNCHANGED <<helper, ws, hashOp, rpcOp, minerOp, mineBlocksCalls, dagVars, minerVars, poolVars, evmVars>>

\* start() after `await this.wsServer.start()` to its end:
\* miner.startMining(), isRunning = true, emit('started')
NodeStartWsDone(c) ==
    /\ c \in DOMAIN node.calls
    /\ node.calls[c].op = "start"
    /\ node.calls[c].pc \in {"ws", "wsListen"}
    /\ node' = [node EXCEPT !.wsRunning   = TRUE,
                            !.isRunning   = TRUE,
                            !.events      = Append(@, NodeEvent("started", "none")),
                            !.calls[c].pc = "returned"]
    /\ IF mining
         THEN UNCHANGED <<mining, miningInterval, timers, rounds, evm>>
         ELSE /\ RoomForRound(config.parallelism)
              /\ mining' = TRUE
              /\ miningInterval' = TRUE
              /\ timers' = timers + 1
              /\ rounds' = Append(rounds, BeginRound(dag, config, txPool, clock))
              /\ evm' = resetCumulativeGas(evm)
    /\ UNCHANGED <<helper, ws, hashOp, rpcOp, minerOp, mineBlocksCalls, evmOp, poolVars, dagVars, clock, config, txPool,
                   blocksMinedCount, receipts, emitted>>

\* LocalNode.stop up to its first await: miner.stopMining(), then
\* rpcServer.stop(), which closes a running server.  Callers make the call
\* when no other stop() is under way.
NodeStop ==
    /\ Len(node.calls) < MaxNodeCalls
    /\ ~NodeCallInProgress("stop")
    /\ IF ~node.isRunning
         THEN /\ node' = [node EXCEPT !.calls = Append(@, [op |-> "stop", pc |-> "returned"])]
              /\ UNCHANGED <<mining, miningInterval, timers>>
         ELSE /\ node' = [node EXCEPT !.calls =
                            Append(@, [op |-> "stop",
                                       pc |-> IF node.rpcRunning THEN "rpcClose" ELSE "rpc"])]
              /\ mining' = FALSE
              /\ miningInterval' = FALSE
              /\ timers' = IF miningInterval THEN timers - 1 ELSE timers
    /\ UNCHANGED <<helper, ws, hashOp, rpcOp, minerOp, mineBlocksCalls, evmVars, poolVars, dagVars, clock, config, txPool,
                   rounds, blocksMinedCount, receipts, emitted>>

\* stop() after `await this.rpcServer.stop()`: the close callback has cleared
\* the server's isRunning; wsServer.stop() is called
NodeStopRpcDone(c) ==
    /\ c \in DOMAIN node.calls
    /\ node.calls[c].op = "stop"
    /\ node.calls[c].pc \in {"rpc", "rpcClose"}
    /\ node' = [node EXCEPT !.rpcRunning  = FALSE,
                            !.rpcBound    = IF node.calls[c].pc = "rpcClose" THEN FALSE ELSE @,
                            !.calls[c].pc = IF node.wsRunning THEN "wsClose" ELSE "ws"]
    /\ UNCHANGED <<helper, ws, hashOp, rpcOp, minerOp, mineBlocksCalls, dagVars, minerVars, poolVars, evmVars>>

\* stop() after `await this.wsServer.stop()` to its end: isRunning = false,
\* emit('stopped')
NodeStopWsDone(c) ==
    /\ c \in DOMAIN node.calls
    /\ node.calls[c].op = "stop"
    /\ node.calls[c].pc \in {"ws", "wsClose"}
    /\ node' = [node EXCEPT !.wsRunning   = IF node.calls[c].pc = "wsClose" THEN FALSE ELSE @,
                            !.wsBound     = IF node.calls[c].pc = "wsClose" THEN FALSE ELSE @,
                            !.isRunning   = FALSE,
                            !.events      = Append(@, NodeEvent("stopped", "none")),
                            !.calls[c].pc = "returned"]
    /\ UNCHANGED <<helper, ws, hashOp, rpcOp, minerOp, mineBlocksCalls, dagVars, minerVars, poolVars, evmVars>>

\* LocalNode.addTransaction with the event emitted whatever the pool answered
NodeAddTransactionAlwaysEmits(tx) ==
    LET added == addTransaction(txPool, maxSize, tx, clock)
    IN  /\ Len(node.calls) < MaxNodeCalls
        /\ txPool' = added.pool
        /\ node' = [node EXCEPT
                      !.events = Append(@, NodeEvent("transactionAdded", tx.hash)),
                      !.calls  = Append(@, [op |-> "addTransaction", pc |-> "returned",
                                            tx |-> tx.hash, returned |-> added.ok])]
        /\ UNCHANGED <<helper, ws, hashOp, rpcOp, minerOp, mineBlocksCalls, evmVars, poolVars, dagVars, clock, config,
                       mining, miningInterval, timers, rounds, blocksMinedCount, receipts,
                       emitted>>

\* LocalNode.addTransaction
NodeAddTransaction(tx) ==
    LET added == addTransaction(txPool, maxSize, tx, clock)
    IN  /\ Len(node.calls) < MaxNodeCalls
        /\ txPool' = added.pool
        /\ node' = [node EXCEPT
                      !.events = IF added.ok
                                   THEN Append(@, NodeEvent("transactionAdded", tx.hash))
                                   ELSE @,
                      !.calls  = Append(@, [op |-> "addTransaction", pc |-> "returned",
                                            tx |-> tx.hash, returned |-> added.ok])]
        /\ UNCHANGED <<helper, ws, hashOp, rpcOp, minerOp, mineBlocksCalls, evmVars, poolVars, dagVars, clock, config,
                       mining, miningInterval, timers, rounds, blocksMinedCount, receipts,
                       emitted>>

NextNode ==
    \/ NodeStart
    \/ \E c \in 1..MaxNodeCalls : NodeStartRpcDone(c)
    \/ \E c \in 1..MaxNodeCalls : NodeStartWsDone(c)
    \/ NodeStop
    \/ \E c \in 1..MaxNodeCalls : NodeStopRpcDone(c)
    \/ \E c \in 1..MaxNodeCalls : NodeStopWsDone(c)
    \/ \E tx \in NodeTxs : NodeAddTransaction(tx)

SpecNode == InitNode /\ [][NextNode]_vars

\* ------------------------------------------------------------------------
\* C24: start() and stop() are idempotent.  Starting a node that is already
\* starting or running starts neither server again, starts the miner once and
\* emits 'started' once: up to any moment the listens of the RPC server, the
\* WebSocket servers created and the 'started' events each number at most the
\* completed stops plus one.  A stop() of a node that is not running changes
\* nothing.
\* ------------------------------------------------------------------------
NodeStops == CountEvents(node.events, "stopped")

NodeCalled(op) ==
    /\ Len(node'.calls) = Len(node.calls) + 1
    /\ node'.calls[Len(node'.calls)].op = op

C24_StartStopIdempotent ==
    /\ [](/\ node.rpcListens <= NodeStops + 1
          /\ node.wsCreated <= NodeStops + 1
          /\ CountEvents(node.events, "started") <= NodeStops + 1)
    /\ [][ (NodeCalled("start") /\ (node.isRunning \/ NodeCallInProgress("start")))
             => /\ node'.rpcListens = node.rpcListens
                /\ node'.wsCreated = node.wsCreated
                /\ node'.events = node.events
                /\ UNCHANGED <<mining, timers, rounds>> ]_vars
    /\ [][ (NodeCalled("stop") /\ ~node.isRunning)
             => /\ [node' EXCEPT !.calls = node.calls] = node
                /\ UNCHANGED <<mining, timers, rounds>> ]_vars

\* ------------------------------------------------------------------------
\* C25: addTransaction(tx) emits exactly one 'transactionAdded' event, carrying
\* tx, when the pool accepted tx (the pool holds tx after the call and did not
\* before) and no event when the pool rejected it; when the event is emitted
\* the pool holds tx; the call returns true exactly when the pool accepted tx.
\* ------------------------------------------------------------------------
LastNodeCall(n) == n.calls[Len(n.calls)]

C25_TransactionAddedIffAccepted ==
    [][ NodeCalled("addTransaction") =>
          LET h        == LastNodeCall(node').tx
              accepted == poolHas(txPool', h) /\ ~poolHas(txPool, h)
          IN  /\ LastNodeCall(node').returned = accepted
              /\ accepted => /\ node'.events =
                                   Append(node.events, NodeEvent("transactionAdded", h))
                             /\ poolHas(txPool', h)
              /\ ~accepted => node'.events = node.events ]_vars

\* a transaction was accepted and announced, and a later submission of it was
\* rejected
C25_Witness ==
    \E i, j \in DOMAIN node.calls :
        /\ i < j
        /\ node.calls[i].op = "addTransaction" /\ node.calls[i].returned
        /\ node.calls[j].op = "addTransaction" /\ ~node.calls[j].returned
        /\ node.calls[j].tx = node.calls[i].tx
        /\ CountEvents(node.events, "transactionAdded") = 1

\* ------------------------------------------------------------------------
\* RPCServer: the JSON-RPC endpoint
\* ------------------------------------------------------------------------
\* enum JsonRpcError, the members the claims are about; no statement of
\* RPCServer.ts uses METHOD_NOT_FOUND
INVALID_REQUEST  == -32600
METHOD_NOT_FOUND == -32601
INTERNAL_ERROR   == -32603

\* a field the request body does not carry
Absent == "absent"

\* A method name is its prefix up to the underscore and the rest.  The names
\* the switch statements of handleEthMethod, handleDagMethod and
\* handleNetMethod have a case for:
KnownMethods ==
    { [prefix |-> "eth_", name |-> n] :
        n \in {"chainId", "getBalance", "sendTransaction", "call"} }
    \cup { [prefix |-> "dag_", name |-> n] : n \in {"getStats", "sendTransaction", "getTips"} }
    \cup { [prefix |-> "net_", name |-> n] : n \in {"version", "listening", "peerCount"} }

\* names no case exists for, with and without a routed prefix
UnknownMethods ==
    { [prefix |-> p, name |-> "unknown"] : p \in {"eth_", "dag_", "net_", "web3_"} }

\* the request bodies sent: jsonrpc, id and method present or not
RpcRequests ==
    [jsonrpc : {Absent, "1.0", "2.0"},
     id      : {1, 2},
     method  : {[prefix |-> Absent, name |-> Absent]} \cup KnownMethods \cup UnknownMethods]

createErrorResponse(id, code) == [jsonrpc |-> "2.0", id |-> id, error |-> code]

createSuccessResponse(id) == [jsonrpc |-> "2.0", id |-> id, error |-> 0]

\* handleMethod: TRUE when it throws.  A method with a case throws when its
\* handler does (handlerThrows, e.g. 'Transaction rejected'); the default
\* branch of each switch and the end of handleMethod throw an Error.
handleMethodThrows(method, handlerThrows) ==
    IF method \in KnownMethods THEN handlerThrows ELSE TRUE

\* handleJsonRpc: the response passed to res.json; the id of a response to a
\* request of another version is null, written 0
handleJsonRpc(request, handlerThrows) ==
    IF request.jsonrpc # "2.0"
      THEN createErrorResponse(0, INVALID_REQUEST)
    ELSE IF request.method.name = Absent
      THEN createErrorResponse(request.id, INVALID_REQUEST)
    ELSE IF handleMethodThrows(request.method, handlerThrows)
      THEN createErrorResponse(request.id, INTERNAL_ERROR)
    ELSE createSuccessResponse(request.id)

InitRpc ==
    /\ dag = NewDAG(0, 0)
    /\ res = "none"
    /\ call = NoCall
    /\ clock = 0
    /\ config = [parallelism |-> 1, maxParents |-> 1, minerAddress |-> DefaultMinerAddress]
    /\ mining = FALSE
    /\ miningInterval = FALSE
    /\ txPool = <<>>
    /\ rounds = <<>>
    /\ blocksMinedCount = 0
    /\ receipts = <<>>
    /\ emitted = <<>>
    /\ maxSize = DefaultPoolSize
    /\ poolOp = NoPoolOp
    /\ evm = NewEVM
    /\ evmOp = NoEvmOp
    /\ timers = 0
    /\ minerOp = NoMinerOp
    /\ mineBlocksCalls = <<>>
    /\ node = NewNode
    /\ rpcOp = NoRpcOp
    /\ hashOp = <<>>
    /\ ws = NewWs
    /\ helper = NoHelperCall

\* POST /: one request handled
RpcPost(request, handlerThrows) ==
    /\ rpcOp' = [request  |-> request,
                 threw    |-> handlerThrows,
                 response |-> handleJsonRpc(request, handlerThrows)]
    /\ UNCHANGED <<helper, ws, hashOp, minerOp, mineBlocksCalls, node, dagVars, minerVars, poolVars, evmVars>>

NextRpc == \E request \in RpcRequests, handlerThrows \in BOOLEAN : RpcPost(request, handlerThrows)

SpecRpc == InitRpc /\ [][NextRpc]_vars

\* ------------------------------------------------------------------------
\* C26: the endpoint answers a request whose jsonrpc field is not "2.0" with
\* error -32600, a request naming a method it does not know with -32601, and
\* a request whose handler throws with -32603.
\* ------------------------------------------------------------------------
C26_ErrorCodes ==
    rpcOp # NoRpcOp =>
        LET request == rpcOp.request
            code    == rpcOp.response.error
        IN  /\ request.jsonrpc # "2.0" => code = -32600
            /\ (request.jsonrpc = "2.0" /\ request.method \in UnknownMethods)
                  => code = -32601
            /\ (request.jsonrpc = "2.0" /\ request.method \in KnownMethods /\ rpcOp.threw)
                  => code = -32603

\* ------------------------------------------------------------------------
\* Block headers as Miner.mineBlock leaves them
\* ------------------------------------------------------------------------
\* what getStateRootHex returns: the root of the untouched state and two others
StateRoots == {"0x0", "0xS1", "0xS2"}

HeaderMiners == {DefaultMinerAddress, CallerMiner}

HeaderParents == {<<>>, <<GenesisKey>>}

\* the end of mineBlock: new Block(parentHashes, executedTransactions,
\* minerAddress), block.header.stateRoot = stateRoot,
\* block.header.hash = block.computeHash()
mineBlockHeader(parentHashes, miner, now, stateRoot) ==
    LET block == NewBlock(parentHashes, <<>>, miner, now)
        header == [parentHashes     |-> block.parentHashes,
                   timestamp        |-> block.timestamp,
                   nonce            |-> 0,
                   stateRoot        |-> stateRoot,
                   transactionsRoot |-> "0x0",
                   miner            |-> block.miner]
    IN  [header |-> header,
         hash   |-> computeHash(header.parentHashes, header.timestamp, header.nonce,
                                header.transactionsRoot, header.miner)]

InitHash ==
    /\ dag = NewDAG(0, 0)
    /\ res = "none"
    /\ call = NoCall
    /\ clock = 0
    /\ config = [parallelism |-> 1, maxParents |-> 1, minerAddress |-> DefaultMinerAddress]
    /\ mining = FALSE
    /\ miningInterval = FALSE
    /\ txPool = <<>>
    /\ rounds = <<>>
    /\ blocksMinedCount = 0
    /\ receipts = <<>>
    /\ emitted = <<>>
    /\ maxSize = DefaultPoolSize
    /\ poolOp = NoPoolOp
    /\ evm = NewEVM
    /\ evmOp = NoEvmOp
    /\ timers = 0
    /\ minerOp = NoMinerOp
    /\ mineBlocksCalls = <<>>
    /\ node = NewNode
    /\ rpcOp = NoRpcOp
    /\ hashOp = <<>>
    /\ ws = NewWs
    /\ helper = NoHelperCall

\* a block leaves mineBlock; hashOp keeps the two latest
HashMineBlock(parentHashes, miner, now, stateRoot) ==
    /\ hashOp' = SubSeq(Append(hashOp, mineBlockHeader(parentHashes, miner, now, stateRoot)),
                        IF Len(hashOp) = 2 THEN 2 ELSE 1, Len(hashOp) + 1)
    /\ UNCHANGED <<helper, ws, minerOp, mineBlocksCalls, node, rpcOp, dagVars, minerVars, poolVars,
                   evmVars>>

NextHash ==
    \E parentHashes \in HeaderParents, miner \in HeaderMiners, now \in 0..MaxClock,
       stateRoot \in StateRoots :
        HashMineBlock(parentHashes, miner, now, stateRoot)

SpecHash == InitHash /\ [][NextHash]_vars

\* ------------------------------------------------------------------------
\* C27: a block's hash is a function of parentHashes, timestamp, nonce,
\* transactionsRoot, miner and stateRoot: two mined blocks that agree on the
\* other five fields and differ in stateRoot have different hashes, and the
\* hash a mined block carries is the hash of its header as it is after
\* stateRoot was set.
\* ------------------------------------------------------------------------
HashedWithStateRoot(b) ==
    <<b.header.parentHashes, b.header.timestamp, b.header.nonce, b.header.transactionsRoot,
      b.header.miner, b.header.stateRoot>>

C27_HashCoversStateRoot ==
    \A i, j \in DOMAIN hashOp :
        /\ (HashedWithStateRoot(hashOp[i]) = HashedWithStateRoot(hashOp[j]))
              <=> (hashOp[i].hash = hashOp[j].hash)
        /\ hashOp[i].hash = computeHash(hashOp[i].header.parentHashes,
                                        hashOp[i].header.timestamp, hashOp[i].header.nonce,
                                        hashOp[i].header.transactionsRoot,
                                        hashOp[i].header.miner)

\* ------------------------------------------------------------------------
\* C28: mining rounds never overlap: from the moment a round takes its tips
\* snapshot until it has appended its last block and emitted its last event,
\* no other round takes a snapshot, executes a transaction or appends a
\* block.  A round other than the one under way can do any of these only
\* after taking its own snapshot, so at every moment at most one round has
\* begun and not finished.
\* ------------------------------------------------------------------------
RoundsInFlight == {n \in 1..Len(rounds) : rounds[n].pc # "done"}

C28_RoundsNeverOverlap == Cardinality(RoundsInFlight) <= 1

\* ------------------------------------------------------------------------
\* C29: after every addBlock the colours are those of the pass that marks
\* genesis blue, visits the other blocks by dagDepth with ties broken by hash
\* order and makes a block blue iff at most k blue blocks are neither its
\* ancestors nor its descendants.  That pass depends on the set of blocks
\* only, so a graph holding the blocks of this one, added in another order
\* (every block after its parents), has the same blue set.
\* ------------------------------------------------------------------------
\* the orders in which the blocks of d can have been added: position i of the
\* other graph holds block p[i] of d
AdditionOrders(d) ==
    LET n == Len(d.blocks)
    IN  { p \in [1..n -> 1..n] :
            /\ \A i, j \in 1..n : p[i] = p[j] => i = j
            /\ \A i \in 1..n :
                 \A q \in 1..Len(d.blocks[p[i]].parentHashes) :
                     \E j \in 1..(i - 1) :
                         d.blocks[p[j]].hash = d.blocks[p[i]].parentHashes[q] }

AddedInOrder(d, p) == [d EXCEPT !.blocks = [i \in 1..Len(d.blocks) |-> d.blocks[p[i]]]]

BlueBlocks(d) == {d.blocks[i].hash : i \in {j \in 1..Len(d.blocks) : d.blocks[j].color = "blue"}}

C29_ColouringIsOrderIndependent ==
    \A p \in AdditionOrders(dag) :
        BlueBlocks(recomputeBlueSet(AddedInOrder(dag, p))) = BlueBlocks(dag)

\* ------------------------------------------------------------------------
\* C30: a round that is in flight when stopMining is called is not aborted.
\* Rounds begin only while the miner is mining, so a round that ends while
\* the miner is stopped was in flight at the stop; when such a round ends,
\* every block it built is stored in the DAG and has its blockMined event,
\* and, no other round being under way, every receipt is for a transaction
\* of a stored block.
\* ------------------------------------------------------------------------
\* the graph stores block b: the entry under b's hash holds b's header fields
\* and transactions
Stored(d, b) ==
    \E i \in 1..Len(d.blocks) :
        /\ d.blocks[i].hash = b.hash
        /\ d.blocks[i].parentHashes = b.parentHashes
        /\ d.blocks[i].timestamp = b.timestamp
        /\ d.blocks[i].miner = b.miner
        /\ d.blocks[i].transactions = b.transactions

InStoredBlock(d, txHash) ==
    \E i \in 1..Len(d.blocks) :
        \E j \in 1..Len(d.blocks[i].transactions) : d.blocks[i].transactions[j].hash = txHash

EndsWhileStopped(n) ==
    /\ ~mining
    /\ n \in 1..Len(rounds)
    /\ rounds[n].pc # "done"
    /\ rounds'[n].pc = "done"

C30_InFlightRoundCompletes ==
    [][ \A n \in 1..MaxRounds :
          EndsWhileStopped(n) =>
              /\ \A i \in 1..Len(rounds'[n].minedBlocks) :
                     Stored(dag', rounds'[n].minedBlocks[i])
              /\ Len(RoundEvents(emitted', n)) = Len(rounds'[n].minedBlocks)
              /\ (\A m \in 1..Len(rounds') : rounds'[m].pc = "done")
                    => \A h \in DOMAIN receipts' : InStoredBlock(dag', h) ]_vars

\* ------------------------------------------------------------------------
\* mineBlocks with time passing between the blocks of a round
\* ------------------------------------------------------------------------
NextMineBlocksClock ==
    \/ NextMineBlocks
    \/ Tick

SpecMineBlocksClock == InitMineBlocks /\ [][NextMineBlocksClock]_vars

\* ------------------------------------------------------------------------
\* C31: when mineBlocks(n), called on a node whose miner was idle, returns,
\* exactly n blocks have been appended to the DAG since the call (the DAG
\* holds its genesis and the blocks counted by blocksMinedCount, whose value
\* at the call is the call's startCount), and the miner is idle again.
\* ------------------------------------------------------------------------
Returns(i) ==
    /\ i \in 1..Len(mineBlocksCalls)
    /\ mineBlocksCalls[i].pc = "waiting"
    /\ mineBlocksCalls'[i].pc = "returned"

C31_MineBlocksAppendsExactlyN ==
    [][ \A i \in 1..MaxMineBlocksCalls :
          (Returns(i) /\ ~mineBlocksCalls[i].wasRunning) =>
              /\ Len(dag'.blocks) = 1 + blocksMinedCount'
              /\ blocksMinedCount' - mineBlocksCalls[i].startCount = mineBlocksCalls[i].count
              /\ ~mining' ]_vars

\* ------------------------------------------------------------------------
\* C32: within one round over a tips snapshot of two or more tips, any two
\* different block indices are given different parent sets.
\* ------------------------------------------------------------------------
C32_DistinctParentSets ==
    \A n \in 1..Len(rounds) :
        Len(rounds[n].tips) >= 2 =>
            \A i, j \in 1..Len(rounds[n].minedBlocks) :
                i # j => Range(rounds[n].minedBlocks[i].parentHashes)
                           # Range(rounds[n].minedBlocks[j].parentHashes)

\* ------------------------------------------------------------------------
\* The miner building blocks from a pool that holds more transactions than a
\* block takes
\* ------------------------------------------------------------------------
\* the i-th transaction submitted: gas prices 1..4 in turn, every second one
\* a transfer of 1 its sender cannot pay
BuildTx(i) ==
    [hash |-> <<"0xBT", i>>, gasPrice |-> (i % 4) + 1, from |-> "0xA", to |-> "0xB",
     value |-> i % 2, gasLimit |-> TxGasLimit]

\* a transaction submitted while a round is under way, with the highest price
LateTx ==
    [hash |-> <<"0xBT", 0>>, gasPrice |-> 5, from |-> "0xA", to |-> "0xB", value |-> 0,
     gasLimit |-> TxGasLimit]

\* the pool after BuildTx(1) .. BuildTx(len) were added, in this order or in
\* the reverse order
BuildPool(len, reversed) ==
    [i \in 1..len |-> [tx       |-> BuildTx(IF reversed THEN len + 1 - i ELSE i),
                       addedAt  |-> 0,
                       attempts |-> 0]]

InitBuild ==
    /\ dag = NewDAG(0, 0)
    /\ res = "none"
    /\ call = NoCall
    /\ clock = 0
    /\ config = [parallelism |-> 1, maxParents |-> 1, minerAddress |-> DefaultMinerAddress]
    /\ mining = FALSE
    /\ miningInterval = FALSE
    /\ \E len \in 0..MaxBuildPool, reversed \in BOOLEAN : txPool = BuildPool(len, reversed)
    /\ rounds = <<>>
    /\ blocksMinedCount = 0
    /\ receipts = <<>>
    /\ emitted = <<>>
    /\ maxSize = DefaultPoolSize
    /\ poolOp = NoPoolOp
    /\ evm = NewEVM
    /\ evmOp = NoEvmOp
    /\ timers = 0
    /\ minerOp = NoMinerOp
    /\ mineBlocksCalls = <<>>
    /\ node = NewNode
    /\ rpcOp = NoRpcOp
    /\ hashOp = <<>>
    /\ ws = NewWs
    /\ helper = NoHelperCall

\* one round: startMining, the executions of the round's block, the block
NextBuild ==
    \/ StartMining /\ Len(rounds) = 0
    \/ AddTransaction(LateTx)
    \/ \E n \in 1..MaxRounds : ExecuteDone(n)
    \/ \E n \in 1..MaxRounds : MineBlockDone(n)

SpecBuild == InitBuild /\ [][NextBuild]_vars

\* ------------------------------------------------------------------------
\* C33: every block the miner builds holds at most ten transactions, in
\* non-increasing gasPrice order; they are the first ten entries of the
\* pool's pending list as it is when the building of the block begins; every
\* one of them has a receipt, and a transaction whose execution failed (here:
\* a transfer its sender cannot pay) is in the block with a receipt of
\* status failed.
\* ------------------------------------------------------------------------
FirstTen(txs) == SubSeq(txs, 1, IF Len(txs) < 10 THEN Len(txs) ELSE 10)

\* round n begins the building of a block in this step
BeginsBlock(n) ==
    /\ n \in 1..Len(rounds')
    /\ rounds'[n].pc # "done"
    /\ \/ n > Len(rounds)
       \/ n <= Len(rounds) /\ rounds'[n].i # rounds[n].i

\* round n completes a block in this step
BuildsBlock(n) ==
    /\ n \in 1..Len(rounds)
    /\ Len(rounds'[n].minedBlocks) = Len(rounds[n].minedBlocks) + 1

LastBlock(r) == r.minedBlocks[Len(r.minedBlocks)]

C33_BlockTransactions ==
    /\ [][ \A n \in 1..MaxRounds :
             BeginsBlock(n) =>
                 rounds'[n].transactions = FirstTen(getPending(txPool', NoLimit)) ]_vars
    /\ [][ \A n \in 1..MaxRounds :
             BuildsBlock(n) =>
                 LET txs == LastBlock(rounds'[n]).transactions
                 IN  /\ txs = rounds[n].transactions
                     /\ Len(txs) <= 10
                     /\ \A i \in 1..(Len(txs) - 1) : txs[i].gasPrice >= txs[i + 1].gasPrice
                     /\ \A i \in 1..Len(txs) :
                          /\ txs[i].hash \in DOMAIN receipts'
                          /\ txs[i].value > 0 => receipts'[txs[i].hash].status = "failed"
                          /\ txs[i].value = 0 => receipts'[txs[i].hash].status = "success" ]_vars

\* a block of ten transactions was built from a pool holding more, one of
\* them a failed transfer
C33_Witness ==
    \E n \in 1..Len(rounds) :
        /\ Len(rounds[n].minedBlocks) = 1
        /\ Len(rounds[n].minedBlocks[1].transactions) = 10
        /\ Len(txPool) > 10
        /\ \E i \in 1..10 :
              LET tx == rounds[n].minedBlocks[1].transactions[i]
              IN  tx.value > 0 /\ receipts[tx.hash].status = "failed"

\* ------------------------------------------------------------------------
\* WebSocketServer: the node's events broadcast to the connected clients and
\* kept in the history buffer
\* ------------------------------------------------------------------------
\* The events the node emits are numbered in emission order; ws.emitted is the
\* number emitted so far.  Of every eight, six are blockMined or
\* transactionAdded and two are the miner's start and stop.
EventType(i) ==
    IF i % 8 = 0 THEN "miningStarted"
    ELSE IF i % 8 = 4 THEN "miningStopped"
    ELSE IF i % 2 = 1 THEN "blockMined"
    ELSE "transactionAdded"

\* the message a listener of setupEventListeners makes of event i
WsMessage(i) == [type |-> EventType(i), seq |-> i]

\* the listeners that call addToQueue after broadcast
QueuedTypes == {"blockMined", "transactionAdded"}

\* messageQueue.slice(-n)
SliceLast(q, n) == SubSeq(q, IF Len(q) > n THEN Len(q) - n + 1 ELSE 1, Len(q))

\* broadcast(message): sent to every client whose socket is open
broadcast(w, message) ==
    [w EXCEPT !.clients = [c \in 1..Len(w.clients) |->
                              IF w.clients[c].open
                                THEN [w.clients[c] EXCEPT !.log = Append(@, message)]
                                ELSE w.clients[c]],
              !.broadcasts = Append(@, message)]

\* addToQueue without the shift
addToQueueUnbounded(w, message) == [w EXCEPT !.queue = Append(@, message)]

\* addToQueue(message)
addToQueue(w, message) ==
    LET pushed == Append(w.queue, message)
    IN  [w EXCEPT !.queue = IF Len(pushed) > maxQueueSize THEN Tail(pushed) ELSE pushed]

\* one listener set of setupEventListeners run on an event
onNodeEvent(w, message) ==
    IF message.type \in QueuedTypes
      THEN addToQueue(broadcast(w, message), message)
      ELSE broadcast(w, message)

\* node.emit: the listeners run in the order they were registered, one set
\* for every setupEventListeners call made so far
RECURSIVE emitToListeners(_, _, _)
emitToListeners(w, message, sets) ==
    IF sets = 0 THEN w
    ELSE emitToListeners(onNodeEvent(w, message), message, sets - 1)

\* handleConnection: the client is added and sent the welcome message and,
\* when the buffer is not empty, its last 20 messages
handleConnection(w) ==
    LET welcome == [type |-> "welcome", seq |-> 0]
        history == [type |-> "history", seq |-> 0,
                    messages |-> SliceLast(w.queue, HistoryLength)]
    IN  [w EXCEPT !.clients =
            Append(@, [open |-> TRUE,
                       log  |-> IF Len(w.queue) > 0 THEN <<welcome, history>>
                                                    ELSE <<welcome>>])]

\* the server started and listening, nothing emitted yet
WsListeningFirst == [NewWs EXCEPT !.isRunning = TRUE, !.listeners = 1]

InitWs ==
    /\ dag = NewDAG(0, 0)
    /\ res = "none"
    /\ call = NoCall
    /\ clock = 0
    /\ config = [parallelism |-> 1, maxParents |-> 1, minerAddress |-> DefaultMinerAddress]
    /\ mining = FALSE
    /\ miningInterval = FALSE
    /\ txPool = <<>>
    /\ rounds = <<>>
    /\ blocksMinedCount = 0
    /\ receipts = <<>>
    /\ emitted = <<>>
    /\ maxSize = DefaultPoolSize
    /\ poolOp = NoPoolOp
    /\ evm = NewEVM
    /\ evmOp = NoEvmOp
    /\ timers = 0
    /\ minerOp = NoMinerOp
    /\ mineBlocksCalls = <<>>
    /\ node = NewNode
    /\ rpcOp = NoRpcOp
    /\ hashOp = <<>>
    /\ ws = WsListeningFirst
    /\ helper = NoHelperCall

WsFrame ==
    UNCHANGED <<helper, hashOp, rpcOp, node, minerOp, mineBlocksCalls, dagVars, minerVars, poolVars,
                evmVars>>

\* the node emits its next event
WsEmit(maxEvents) ==
    /\ ws.emitted < maxEvents
    /\ ws' = emitToListeners([ws EXCEPT !.emitted = @ + 1], WsMessage(ws.emitted + 1),
                             ws.listeners)
    /\ WsFrame

\* a client connects to the listening server
WsConnect(maxClients) ==
    /\ ws.isRunning
    /\ Len(ws.clients) < maxClients
    /\ ws' = handleConnection(ws)
    /\ WsFrame

\* WebSocketServer.start to the promise it returns: the server socket is
\* created and setupEventListeners puts its listeners on the node
WsStart ==
    /\ ~ws.isRunning
    /\ ~ws.starting
    /\ ws.listeners < MaxWsStarts
    /\ ws' = [ws EXCEPT !.starting = TRUE, !.listeners = @ + 1]
    /\ WsFrame

\* the 'listening' callback of start
WsListening ==
    /\ ws.starting
    /\ ws' = [ws EXCEPT !.starting = FALSE, !.isRunning = TRUE]
    /\ WsFrame

\* WebSocketServer.stop with its close callback: every client is closed and
\* forgotten, the server is closed
WsStop ==
    /\ ws.isRunning
    /\ ws' = [ws EXCEPT !.isRunning = FALSE,
                        !.clients = [c \in 1..Len(ws.clients) |->
                                        [ws.clients[c] EXCEPT !.open = FALSE]]]
    /\ WsFrame

\* a server that keeps running while the node emits more events than the
\* buffer holds and one client connects
NextWs ==
    \/ WsEmit(MaxWsEvents)
    \/ WsConnect(1)

SpecWs == InitWs /\ [][NextWs]_vars

\* ------------------------------------------------------------------------
\* C34: the history buffer never holds more than 100 messages; it holds the
\* most recently broadcast blockMined and transactionAdded messages in
\* emission order, the oldest dropped first; a client that connects is sent
\* the welcome message first and then the most recent (at most 20) buffered
\* messages in buffer order.
\* ------------------------------------------------------------------------
QueuedBroadcasts == SelectSeq(ws.broadcasts, LAMBDA m : m.type \in QueuedTypes)

Connects ==
    /\ Len(ws'.clients) = Len(ws.clients) + 1

C34_HistoryBuffer ==
    /\ [](/\ Len(ws.queue) <= 100
          /\ ws.queue = SubSeq(QueuedBroadcasts,
                               IF Len(QueuedBroadcasts) > 100
                                 THEN Len(QueuedBroadcasts) - 99 ELSE 1,
                               Len(QueuedBroadcasts))
          /\ \A i \in 1..(Len(ws.queue) - 1) : ws.queue[i].seq <= ws.queue[i + 1].seq)
    /\ [][ Connects =>
             LET log  == ws'.clients[Len(ws'.clients)].log
                 n    == Len(ws.queue)
                 last == [i \in 1..(IF n > 20 THEN 20 ELSE n) |->
                             ws.queue[(IF n > 20 THEN n - 20 ELSE 0) + i]]
             IN  /\ log[1].type = "welcome"
                 /\ IF n = 0 THEN Len(log) = 1
                    ELSE /\ Len(log) = 2
                         /\ log[2].type = "history"
                         /\ log[2].messages = last ]_vars

\* the buffer is full and has dropped its oldest messages, and a client that
\* connected when it held more than 20 messages was sent the last 20
C34_Witness ==
    /\ Len(ws.queue) = 100
    /\ ws.queue[1].seq > 1
    /\ \E c \in 1..Len(ws.clients) :
          /\ Len(ws.clients[c].log) >= 2
          /\ ws.clients[c].log[2].type = "history"
          /\ Len(ws.clients[c].log[2].messages) = 20
          /\ ws.clients[c].log[2].messages[1].seq > 1

\* ------------------------------------------------------------------------
\* The server stopped and started again, with a few events and clients
\* ------------------------------------------------------------------------
InitWsRestart ==
    /\ dag = NewDAG(0, 0)
    /\ res = "none"
    /\ call = NoCall
    /\ clock = 0
    /\ config = [parallelism |-> 1, maxParents |-> 1, minerAddress |-> DefaultMinerAddress]
    /\ mining = FALSE
    /\ miningInterval = FALSE
    /\ txPool = <<>>
    /\ rounds = <<>>
    /\ blocksMinedCount = 0
    /\ receipts = <<>>
    /\ emitted = <<>>
    /\ maxSize = DefaultPoolSize
    /\ poolOp = NoPoolOp
    /\ evm = NewEVM
    /\ evmOp = NoEvmOp
    /\ timers = 0
    /\ minerOp = NoMinerOp
    /\ mineBlocksCalls = <<>>
    /\ node = NewNode
    /\ rpcOp = NoRpcOp
    /\ hashOp = <<>>
    /\ ws = NewWs
    /\ helper = NoHelperCall

NextWsRestart ==
    \/ WsStart
    \/ WsListening
    \/ WsStop
    \/ WsEmit(MaxRestartEvents)
    \/ WsConnect(MaxWsClients)

SpecWsRestart == InitWsRestart /\ [][NextWsRestart]_vars

\* ------------------------------------------------------------------------
\* C40: every event the node emits while the server runs is sent to each open
\* client exactly once, the clients receiving the events in emission order,
\* and a blockMined or transactionAdded event is stored in the history buffer
\* exactly once - also after the server was stopped and started again.
\* ------------------------------------------------------------------------
Emits == ws'.emitted = ws.emitted + 1

Occurrences(q, i) == Cardinality({j \in 1..Len(q) : q[j].seq = i})

C40_EachEventOnce ==
    [][ (Emits /\ ws.isRunning) =>
          LET message == WsMessage(ws'.emitted)
          IN  /\ \A c \in 1..Len(ws.clients) :
                    ws.clients[c].open =>
                        ws'.clients[c].log = Append(ws.clients[c].log, message)
              /\ message.type \in QueuedTypes =>
                    Occurrences(ws'.queue, message.seq) = 1 ]_vars

\* ------------------------------------------------------------------------
\* MiningHelpers.mineToDepth on a node whose miner is not running
\* ------------------------------------------------------------------------
\* mineParallel's loop for block helper.i up to `await miner.mineBlock(...)`,
\* or, the array being complete, the loop test of mineToDepth
HelperNext(h, d, cfg, index) ==
    IF index < cfg.parallelism
      THEN [h EXCEPT !.pc = "mining", !.i = index]
    ELSE IF getMaxDepth(d) < h.target
      THEN [h EXCEPT !.pc = "mining", !.i = 0]
    ELSE [h EXCEPT !.pc = "returned"]

InitHelper ==
    /\ dag \in {NewDAG(0, 0), NewDAG(1, 0), DiamondDag}
    /\ res = "none"
    /\ call = NoCall
    /\ clock = 0
    /\ \E par \in 1..MaxParallelism :
          config = [parallelism |-> par, maxParents |-> 1, minerAddress |-> DefaultMinerAddress]
    /\ mining = FALSE
    /\ miningInterval = FALSE
    /\ txPool = <<>>
    /\ rounds = <<>>
    /\ blocksMinedCount = 0
    /\ receipts = <<>>
    /\ emitted = <<>>
    /\ maxSize = DefaultPoolSize
    /\ poolOp = NoPoolOp
    /\ evm = NewEVM
    /\ evmOp = NoEvmOp
    /\ timers = 0
    /\ minerOp = NoMinerOp
    /\ mineBlocksCalls = <<>>
    /\ node = NewNode
    /\ rpcOp = NoRpcOp
    /\ hashOp = <<>>
    /\ ws = NewWs
    /\ helper = NoHelperCall

HelperFrame ==
    UNCHANGED <<ws, hashOp, rpcOp, node, minerOp, mineBlocksCalls, evmOp, poolVars, dagVars,
                clock, config, mining, miningInterval, timers, txPool, rounds,
                blocksMinedCount, receipts, emitted>>

\* mineToDepth(targetDepth) up to its first await: the loop test and, when
\* the DAG is not deep enough, mineParallel up to the mineBlock of its first
\* block
MineToDepth(targetDepth) ==
    /\ helper.pc = "idle"
    /\ ~mining
    /\ helper' = IF getMaxDepth(dag) < targetDepth
                   THEN [helper EXCEPT !.target = targetDepth, !.pc = "mining", !.i = 0]
                   ELSE [helper EXCEPT !.target = targetDepth, !.pc = "returned"]
    /\ evm' = IF getMaxDepth(dag) < targetDepth THEN resetCumulativeGas(evm) ELSE evm
    /\ HelperFrame

\* Miner.mineBlock called by the helper, resumed after its
\* `await this.evmExecutor.getStateRootHex()`: the block is constructed and
\* returned
HelperBlockBuilt ==
    /\ helper.pc = "mining"
    /\ helper' = [helper EXCEPT !.pc = "built"]
    /\ UNCHANGED evm
    /\ HelperFrame

\* mineParallel resumed after `await miner.mineBlock(transactions, tips)`:
\* the block is pushed onto the array (helper.mined counts them up to
\* MaxHelperMined) and the next one is begun, or mineParallel returns to the
\* loop test of mineToDepth.  No statement of the helper adds a block to the
\* DAG.
HelperMineBlockDone ==
    /\ helper.pc = "built"
    /\ LET counted == [helper EXCEPT !.mined = Min(@ + 1, MaxHelperMined)]
       IN  helper' = HelperNext(counted, dag, config, helper.i + 1)
    /\ evm' = IF helper'.pc = "mining" THEN resetCumulativeGas(evm) ELSE evm
    /\ HelperFrame

\* Date.now() advances
HelperTick ==
    /\ clock < MaxClock
    /\ clock' = clock + 1
    /\ UNCHANGED <<helper, nodeVars, evmVars, poolVars, dagVars, config, mining, miningInterval,
                   timers, txPool, rounds, blocksMinedCount, receipts, emitted>>

NextHelper ==
    \/ \E targetDepth \in 0..MaxTargetDepth : MineToDepth(targetDepth)
    \/ HelperBlockBuilt
    \/ HelperMineBlockDone
    \/ HelperTick

\* an awaited mineBlock resolves
FairHelper == WF_vars(HelperBlockBuilt) /\ WF_vars(HelperMineBlockDone)

SpecHelper == InitHelper /\ [][NextHelper]_vars /\ FairHelper

\* ------------------------------------------------------------------------
\* C35: mineToDepth(d) on a node whose miner is not running terminates, and
\* when it has returned the maximum depth of the DAG is at least d.
\* ------------------------------------------------------------------------
C35_MineToDepthTerminates ==
    /\ [](helper.pc \in {"mining", "built"} => <>(helper.pc = "returned"))
    /\ [](helper.pc = "returned" => getMaxDepth(dag) >= helper.target)

\* ------------------------------------------------------------------------
\* SpecChain: a graph that holds the genesis, a child of it and a grandchild,
\* to which callers add blocks as the miner builds them: under a new hash and
\* with one or more stored blocks as parents.
\* ------------------------------------------------------------------------
ChainDag(kk) ==
    AddAll(NewDAG(kk, 0),
           <<CallerBlock(Key(1), <<GenesisKey>>), CallerBlock(Key(2), <<Key(1)>>)>>)

InitChain ==
    /\ \E kk \in 0..MaxK : dag = ChainDag(kk)
    /\ res = "none"
    /\ call = NoCall
    /\ clock = 0
    /\ config = [parallelism |-> 1, maxParents |-> 1, minerAddress |-> DefaultMinerAddress]
    /\ mining = FALSE
    /\ miningInterval = FALSE
    /\ txPool = <<>>
    /\ rounds = <<>>
    /\ blocksMinedCount = 0
    /\ receipts = <<>>
    /\ emitted = <<>>
    /\ maxSize = DefaultPoolSize
    /\ poolOp = NoPoolOp
    /\ evm = NewEVM
    /\ evmOp = NoEvmOp
    /\ timers = 0
    /\ minerOp = NoMinerOp
    /\ mineBlocksCalls = <<>>
    /\ node = NewNode
    /\ rpcOp = NoRpcOp
    /\ hashOp = <<>>
    /\ ws = NewWs
    /\ helper = NoHelperCall

\* the parent lists of a new block: stored blocks, oldest first
StoredParentLists(d) ==
    {ps \in SeqsUpTo(BlockHashes(d), MaxParentList) :
        /\ Len(ps) >= 1
        /\ \A i \in 1..(Len(ps) - 1) : KeyIndex(ps[i]) < KeyIndex(ps[i + 1])}

\* dag.addBlock(b) for a new block b whose parents are stored
AddChild(ps) ==
    /\ Len(dag.blocks) <= MaxChainBlocks
    /\ LET r == addBlock(dag, CallerBlock(Key(Len(dag.blocks)), ps))
       IN  /\ dag' = r.dag
           /\ res' = r.res
    /\ call' = "parents-stored"
    /\ UNCHANGED <<nodeVars, minerVars, poolVars, evmVars>>

NextChain == \E ps \in StoredParentLists(dag) : AddChild(ps)

SpecChain == InitChain /\ [][NextChain]_vars

\* C36: confirmation is stable: a block that is blue before an addBlock is
\* blue after it, so a block never turns from blue back to red.
C36_BlueStaysBlue ==
    [][\A h \in BlueHashes(dag) : h \in BlueHashes(dag')]_vars

\* the blue blocks that are neither b, nor ancestors of b, nor descendants
\* of b
BlueAnticone(d, b) ==
    {x \in BlueHashes(d) :
        /\ x # b
        /\ x \notin AncestorSet(d, b)
        /\ b \notin AncestorSet(d, x)}

\* C37: after every addBlock the blue set is a k-cluster: every blue block
\* has at most k blue blocks that are neither its ancestors nor its
\* descendants.
C37_BlueSetIsKCluster ==
    \A b \in BlueHashes(dag) : Cardinality(BlueAnticone(dag, b)) <= dag.k

\* C38: an addTransaction that is rejected as a duplicate leaves the pool as
\* it was: the same entries with the same addedAt and attempts, also when the
\* pool is full at the time of the call.
C38_RejectedAddLeavesPool ==
    [][ (poolOp'.op = "add" /\ ~poolOp'.ok) => txPool' = txPool ]_vars

\* the graph stores a block of hash blockHash whose transaction list holds
\* the transaction txHash
StoredBlockHolds(d, blockHash, txHash) ==
    \E i \in 1..Len(d.blocks) :
        /\ d.blocks[i].hash = blockHash
        /\ \E j \in 1..Len(d.blocks[i].transactions) :
               d.blocks[i].transactions[j].hash = txHash

\* C39: once the rounds have appended their blocks, every receipt in the
\* miner's index names as blockHash the hash of a block stored in the DAG
\* whose transaction list contains the receipt's transactionHash.
C39_ReceiptNamesStoredBlock ==
    (\A m \in 1..Len(rounds) : rounds[m].pc = "done") =>
        \A h \in DOMAIN receipts :
            StoredBlockHolds(dag, receipts[h].blockHash, receipts[h].transactionHash)

====
